---- MODULE Spec2Model ----
(***************************************************************************)
(* A model of github.com/ikedam/protect: the tag-driven recursive copy     *)
(* engine (protect.go).  Go values live in an explicit heap so that        *)
(* aliasing, in-place writes and the identity-keyed option registries are  *)
(* what the code makes them.                                               *)
(*                                                                         *)
(* Encoding of Go values, by the kind of their type:                       *)
(*   basic      a TLA+ string (string) or number (uint64)                  *)
(*   struct     the tuple of its field values, in declaration order        *)
(*   ptr, map   a heap address, NIL for nil                                *)
(*   slice      [a |-> address of the backing array, n |-> length]         *)
(*   interface  [t |-> dynamic type, v |-> value], NilIface for nil        *)
(* A heap cell is [t |-> type, v |-> contents]: the value a pointer points *)
(* to, the tuple of elements of a backing array, or the key -> value       *)
(* function of a map.  A location is [a |-> address, p |-> path], the path *)
(* being field and element indexes inside the cell (an addressable         *)
(* reflect.Value).  Strings that the code parses (tags) are tuples of      *)
(* one-character strings.                                                  *)
(***************************************************************************)
EXTENDS Integers, Sequences, FiniteSets, TLC

VARIABLES
    heap,             \* the Go heap: a sequence of cells, address = index
    sliceOptions,     \* Protector.sliceOptions: data pointer -> option
    mapOptions,       \* Protector.mapOptions: map pointer -> option
    primitiveStructs, \* Protector.primitiveStructs: set of struct types
    rootT,            \* the type of the caller's variables src and dst
    srcA, dstA,       \* addresses of the caller's variables src and dst
    othA,             \* address of a caller's variable of another type
    ret,              \* what the last call returned (Clone: the clone)
    pre,              \* the heap and registries when the last call started
    last,             \* the last call: operation, arguments, error
    calls,            \* number of calls made so far
    caller,           \* the caller: how many calls it makes, which arguments it passes
    tagValue, tagArg, protected, \* inputs and result of isProtected
    req,              \* the echo.Context of a handler: the request body and its wrapper
    procs             \* the calls in progress: the CopySlice calls of goroutines
                      \* sharing the engine, a call followed activation by activation

vars == <<heap, sliceOptions, mapOptions, primitiveStructs, rootT, srcA, dstA,
          othA, ret, pre, last, calls, caller, tagValue, tagArg, protected, req,
          procs>>

----------------------------------------------------------------------------
(* Bounds *)

MaxLen == 2        \* longest slice a caller builds
MaxCalls == 2      \* calls a caller makes in a row, where a claim is about a sequence
MaxTagLen == 4     \* longest exclusion-tag value given to isProtected
MaxOpTagLen == 2   \* longest operation tag given to isProtected
MaxNodes == 3      \* most Nodes a caller links

NIL == 0
ZeroBase == 1      \* runtime.zerobase: the data pointer of every empty slice

----------------------------------------------------------------------------
(* Strings as tuples of characters *)

Create == <<"c", "r">>
Update == <<"u", "p">>
NoTag == <<>>
CreateUpdate == <<"c", "r", ",", "u", "p">>

IsSpace(ch) == ch \in {" ", "\t"}

RECURSIVE SplitFrom(_, _, _)
SplitFrom(s, i, cur) ==
    IF i > Len(s) THEN <<cur>>
    ELSE IF s[i] = "," THEN <<cur>> \o SplitFrom(s, i + 1, <<>>)
    ELSE SplitFrom(s, i + 1, Append(cur, s[i]))

\* strings.Split(s, ",")
Split(s) == SplitFrom(s, 1, <<>>)

RECURSIVE TrimLeft(_)
TrimLeft(s) == IF s # <<>> /\ IsSpace(Head(s)) THEN TrimLeft(Tail(s)) ELSE s

RECURSIVE TrimRight(_)
TrimRight(s) ==
    IF s # <<>> /\ IsSpace(s[Len(s)]) THEN TrimRight(SubSeq(s, 1, Len(s) - 1)) ELSE s

\* strings.TrimSpace(s)
TrimSpace(s) == TrimRight(TrimLeft(s))

RECURSIVE AnyTokenIs(_, _, _)
AnyTokenIs(tags, i, tag) ==
    IF i > Len(tags) THEN FALSE
    ELSE IF TrimSpace(tags[i]) = tag THEN TRUE
    ELSE AnyTokenIs(tags, i + 1, tag)

\* isProtected without strings.TrimSpace
isProtected_NoTrim(tv, tag) ==
    IF tv = <<>> \/ tag = <<>> THEN FALSE
    ELSE \E i \in 1..Len(Split(tv)) : Split(tv)[i] = tag

isProtected(tv, tag) ==
    IF tv = <<>> \/ tag = <<>> THEN FALSE
    ELSE AnyTokenIs(Split(tv), 1, tag)

----------------------------------------------------------------------------
(* Types *)

F(n, t, pf) == [name |-> n, type |-> t, exported |-> TRUE, protectfor |-> pf,
                protectopt |-> ""]
U(n, t) == [name |-> n, type |-> t, exported |-> FALSE, protectfor |-> <<>>,
            protectopt |-> ""]
\* an exported field declared with `protectopt:"po"`
FO(n, t, pf, po) == [name |-> n, type |-> t, exported |-> TRUE, protectfor |-> pf,
                     protectopt |-> po]

\* the types of protect_test.go, time.Time, and five types of a caller's own:
\* Account has an unexported field, AnyStruct a field of type interface{},
\* AnnotatedItems is SliceWithOptions with Items declared `protectopt:"match"` and
\* MapItems declared `protectopt:"patch"`, Envelope holds a SliceWithOptions
\* between two strings, and Node holds a pointer to a Node
StructTypes == {"SimpleStruct", "NestedStruct", "SliceWithOptions", "TimeStruct",
                "Time", "Account", "AnyStruct", "AnnotatedItems", "Envelope", "Node",
                "Other"}
PtrTypes == {"*SimpleStruct", "*Time", "*Node"}
SliceTypes == {"[]SimpleStruct", "[]NestedStruct", "[]Time", "[]Account",
               "[]SliceWithOptions"}
MapTypes == {"map[string]SimpleStruct", "map[string]NestedStruct",
             "map[string]*SimpleStruct", "map[string]Time",
             "map[string][]SimpleStruct"}
IfaceTypes == {"interface{}"}

Kind(T) ==
    CASE T \in StructTypes -> "struct"
      [] T \in PtrTypes -> "ptr"
      [] T \in SliceTypes -> "slice"
      [] T \in MapTypes -> "map"
      [] T \in IfaceTypes -> "interface"
      [] OTHER -> "basic"

Elem(T) ==
    CASE T = "*SimpleStruct" -> "SimpleStruct"
      [] T = "*Time" -> "Time"
      [] T = "*Node" -> "Node"
      [] T = "[]SimpleStruct" -> "SimpleStruct"
      [] T = "[]NestedStruct" -> "NestedStruct"
      [] T = "[]Time" -> "Time"
      [] T = "[]Account" -> "Account"
      [] T = "[]SliceWithOptions" -> "SliceWithOptions"
      [] T = "map[string][]SimpleStruct" -> "[]SimpleStruct"
      [] T = "map[string]SimpleStruct" -> "SimpleStruct"
      [] T = "map[string]NestedStruct" -> "NestedStruct"
      [] T = "map[string]*SimpleStruct" -> "*SimpleStruct"
      [] T = "map[string]Time" -> "Time"

Fields(T) ==
    CASE T = "SimpleStruct" ->
            << F("ID", "string", CreateUpdate), F("Code", "string", Update),
               F("Name", "string", <<>>) >>
      [] T = "NestedStruct" ->
            << F("ID", "string", CreateUpdate), F("Parent", "*SimpleStruct", <<>>),
               F("Child", "SimpleStruct", <<>>) >>
      [] T = "SliceWithOptions" ->
            << F("ID", "string", CreateUpdate), F("Items", "[]SimpleStruct", <<>>),
               F("MapItems", "map[string]SimpleStruct", <<>>) >>
      [] T = "AnnotatedItems" ->
            << F("ID", "string", CreateUpdate),
               FO("Items", "[]SimpleStruct", <<>>, "match"),
               FO("MapItems", "map[string]SimpleStruct", <<>>, "patch") >>
      [] T = "TimeStruct" ->
            << F("ID", "string", CreateUpdate), F("CreatedAt", "Time", <<>>),
               F("UpdatedAt", "*Time", <<>>), F("Name", "string", <<>>) >>
      [] T = "Time" -> << U("wall", "uint64"), U("ext", "uint64") >>
      [] T = "Account" ->
            << F("ID", "string", CreateUpdate), U("secret", "string"),
               F("Name", "string", <<>>) >>
      [] T = "AnyStruct" ->
            << F("ID", "string", CreateUpdate), F("Value", "interface{}", <<>>) >>
      [] T = "Envelope" ->
            << F("Title", "string", <<>>), F("Body", "SliceWithOptions", <<>>),
               F("Note", "string", <<>>) >>
      [] T = "Node" ->
            << F("ID", "string", CreateUpdate), F("Name", "string", <<>>),
               F("Next", "*Node", <<>>) >>
      [] T = "Other" -> << F("Name", "string", <<>>) >>

NumField(T) == Len(Fields(T))

NilSlice == [a |-> NIL, n |-> 0]
NilIface == [t |-> "", v |-> 0]

RECURSIVE Zero(_)
\* reflect.Zero(T): the zero value of a type
Zero(T) ==
    CASE Kind(T) = "struct" -> [i \in 1..NumField(T) |-> Zero(Fields(T)[i].type)]
      [] Kind(T) = "ptr" -> NIL
      [] Kind(T) = "slice" -> NilSlice
      [] Kind(T) = "map" -> NIL
      [] Kind(T) = "interface" -> NilIface
      [] T = "uint64" -> 0
      [] OTHER -> ""

\* field.Tag.Get(name)
TagGet(field, name) ==
    IF name = "protectfor" THEN field.protectfor
    ELSE IF name = "protectopt" THEN field.protectopt
    ELSE ""

----------------------------------------------------------------------------
(* The heap *)

RECURSIVE GetPath(_, _)
GetPath(v, p) == IF p = <<>> THEN v ELSE GetPath(v[Head(p)], Tail(p))

RECURSIVE SetPath(_, _, _)
SetPath(v, p, x) ==
    IF p = <<>> THEN x ELSE [v EXCEPT ![Head(p)] = SetPath(@, Tail(p), x)]

Loc(a) == [a |-> a, p |-> <<>>]
Sub(l, i) == [a |-> l.a, p |-> Append(l.p, i)]

Read(h, l) == GetPath(h[l.a].v, l.p)
Write(h, l, x) == [h EXCEPT ![l.a].v = SetPath(@, l.p, x)]

\* reflect.New(T): a fresh cell; its address is Len of the new heap
Alloc(h, T, v) == Append(h, [t |-> T, v |-> v])

\* reflect.MakeSlice(T, n, n): the heap afterwards and the slice header
MakeSlice(h, T, n) ==
    IF n = 0 THEN [h |-> h, v |-> [a |-> ZeroBase, n |-> 0]]
    ELSE [h |-> Alloc(h, T, [i \in 1..n |-> Zero(Elem(T))]),
          v |-> [a |-> Len(h) + 1, n |-> n]]

Ok(h) == [h |-> h, err |-> <<>>]
Fail(h, e) == [h |-> h, err |-> e]

\* the order in which a map's keys are visited
KeyOrder == <<"first", "second", "third">>

----------------------------------------------------------------------------
(* The Protector and its registries *)

Min(a, b) == IF a < b THEN a ELSE b
Max(a, b) == IF a > b THEN a ELSE b

\* the receiver p of the engine's methods
Protector == [tagName |-> "protectfor", optTagName |-> "protectopt",
              sliceOptions |-> sliceOptions, mapOptions |-> mapOptions,
              primitiveStructs |-> primitiveStructs]

IsPrimitiveStruct(p, T) ==
    LET t == IF Kind(T) = "ptr" THEN Elem(T) ELSE T IN t \in p.primitiveStructs

\* the registry key of a slice: fmt.Sprintf("%p", slice) prints its data pointer
SliceKey(sliceVal) == sliceVal.a

\* getSliceOption with match as the default option
getSliceOption_DefaultMatch(p, sliceVal) ==
    IF SliceKey(sliceVal) \in DOMAIN p.sliceOptions
    THEN p.sliceOptions[SliceKey(sliceVal)]
    ELSE "match"

getSliceOption(p, sliceVal) ==
    IF SliceKey(sliceVal) \in DOMAIN p.sliceOptions
    THEN p.sliceOptions[SliceKey(sliceVal)]
    ELSE "overwrite"

\* getMapOption with patch as the default option
getMapOption_DefaultPatch(p, mapVal) ==
    IF mapVal \in DOMAIN p.mapOptions THEN p.mapOptions[mapVal] ELSE "patch"

getMapOption(p, mapVal) ==
    IF mapVal \in DOMAIN p.mapOptions THEN p.mapOptions[mapVal] ELSE "overwrite"

\* sync.Map Store and Delete
Store(m, k, x) == [y \in DOMAIN m \cup {k} |-> IF y = k THEN x ELSE m[y]]
Delete(m, k) == [y \in DOMAIN m \ {k} |-> m[y]]

----------------------------------------------------------------------------
(* The traversal.  Every operator takes the heap and returns the heap it   *)
(* leaves; src and dst are locations, read when the code reads them.  The  *)
(* result of a recursive step is handed to the operator that continues     *)
(* the loop, which looks at it first: steps happen in the code's order.    *)

RECURSIVE simpleCloneElement(_, _, _, _)
RECURSIVE simpleCloneFields(_, _, _, _, _, _)
RECURSIVE simpleCloneFieldSet(_, _, _, _, _, _)
RECURSIVE simpleCloneElems(_, _, _, _, _, _, _)
RECURSIVE simpleCloneElemSet(_, _, _, _, _, _, _)
RECURSIVE simpleCloneEntries(_, _, _, _, _, _)
RECURSIVE simpleCloneEntrySet(_, _, _, _, _, _)
RECURSIVE copyValue(_, _, _, _, _, _)
RECURSIVE copyStructFrom(_, _, _, _, _, _, _)
RECURSIVE copyStructNext(_, _, _, _, _, _, _)
RECURSIVE copyElems(_, _, _, _, _, _, _, _)
RECURSIVE copyElemsNext(_, _, _, _, _, _, _, _)
RECURSIVE copyMatchElems(_, _, _, _, _, _, _, _, _)
RECURSIVE copyMatchNext(_, _, _, _, _, _, _, _, _)
RECURSIVE copyMatchNewSet(_, _, _, _, _, _, _, _, _, _, _)
RECURSIVE copyMapMatch(_, _, _, _, _, _, _, _)
RECURSIVE copyMapMatchSet(_, _, _, _, _, _, _, _)
RECURSIVE copyMapPatch(_, _, _, _, _, _, _)
RECURSIVE copyMapPatchSet(_, _, _, _, _, _, _)

\* a reflect.Value simpleCloneElement returns, with the heap it leaves
Cloned(h, v) == [h |-> h, v |-> v, valid |-> TRUE]

\* the struct case of simpleCloneElement: fields i.. of src into the value acc
simpleCloneFields(p, T, s, h, i, acc) ==
    IF i > NumField(T) THEN Cloned(h, acc)
    ELSE IF ~Fields(T)[i].exported THEN simpleCloneFields(p, T, s, h, i + 1, acc)
    ELSE simpleCloneFieldSet(p, T, s, i, acc,
                             simpleCloneElement(p, Fields(T)[i].type, Sub(s, i), h))

\* if clonedVal.IsValid() { dstField.Set(clonedVal) }, then the next field
simpleCloneFieldSet(p, T, s, i, acc, c) ==
    IF c.valid THEN simpleCloneFields(p, T, s, c.h, i + 1, [acc EXCEPT ![i] = c.v])
    ELSE simpleCloneFields(p, T, s, c.h, i + 1, acc)

\* the slice case: elements i..n of the array at sa into the array at da
simpleCloneElems(p, ET, sa, da, h, i, n) ==
    IF i > n THEN h
    ELSE simpleCloneElemSet(p, ET, sa, da, i, n,
                            simpleCloneElement(p, ET, Sub(Loc(sa), i), h))

\* if clonedVal.IsValid() { newSlice.Index(i).Set(clonedVal) }, then the next element
simpleCloneElemSet(p, ET, sa, da, i, n, c) ==
    IF c.valid
    THEN simpleCloneElems(p, ET, sa, da, Write(c.h, Sub(Loc(da), i), c.v), i + 1, n)
    ELSE simpleCloneElems(p, ET, sa, da, c.h, i + 1, n)

\* the map case: the entries of the map at sm, from the i-th key on, into dm
simpleCloneEntries(p, VT, sm, dm, h, i) ==
    IF i > Len(KeyOrder) THEN h
    ELSE IF KeyOrder[i] \notin DOMAIN h[sm].v
    THEN simpleCloneEntries(p, VT, sm, dm, h, i + 1)
    ELSE simpleCloneEntrySet(p, VT, sm, dm, i,
            simpleCloneElement(p, VT, Loc(Len(h) + 1), Alloc(h, VT, h[sm].v[KeyOrder[i]])))

\* if clonedVal.IsValid() { newMap.SetMapIndex(k, clonedVal) }, then the next key
simpleCloneEntrySet(p, VT, sm, dm, i, c) ==
    IF c.valid
    THEN simpleCloneEntries(p, VT, sm, dm,
                            [c.h EXCEPT ![dm].v = Store(@, KeyOrder[i], c.v)], i + 1)
    ELSE simpleCloneEntries(p, VT, sm, dm, c.h, i + 1)

\* newPtr.Elem().Set(clonedVal); dst.Set(newPtr)
simpleClonePtrSet(newPtr, c) ==
    IF c.valid THEN Cloned(Write(c.h, Loc(newPtr), c.v), newPtr) ELSE Cloned(c.h, newPtr)

\* dst.Set(clonedVal) of the interface case
simpleCloneIfaceSet(t, c) ==
    IF c.valid THEN Cloned(c.h, [t |-> t, v |-> c.v]) ELSE Cloned(c.h, NilIface)

\* simpleCloneElement(src): the heap afterwards and the clone
simpleCloneElement(p, T, s, h) ==
    IF Kind(T) = "struct" /\ IsPrimitiveStruct(p, T) THEN Cloned(h, Read(h, s))
    ELSE CASE Kind(T) = "struct" -> simpleCloneFields(p, T, s, h, 1, Zero(T))
           [] Kind(T) = "ptr" ->
                IF Read(h, s) = NIL THEN Cloned(h, NIL)
                ELSE simpleClonePtrSet(Len(h) + 1,
                        simpleCloneElement(p, Elem(T), Loc(Read(h, s)),
                                           Alloc(h, Elem(T), Zero(Elem(T)))))
           [] Kind(T) = "slice" ->
                IF Read(h, s).a = NIL THEN Cloned(h, NilSlice)
                ELSE LET sv == Read(h, s)
                         m == MakeSlice(h, T, sv.n)
                     IN Cloned(simpleCloneElems(p, Elem(T), sv.a, m.v.a, m.h, 1, sv.n), m.v)
           [] Kind(T) = "map" ->
                IF Read(h, s) = NIL THEN Cloned(h, NIL)
                ELSE Cloned(simpleCloneEntries(p, Elem(T), Read(h, s), Len(h) + 1,
                                               Alloc(h, T, <<>>), 1),
                            Len(h) + 1)
           [] Kind(T) = "interface" ->
                IF Read(h, s).t = "" THEN Cloned(h, NilIface)
                ELSE simpleCloneIfaceSet(Read(h, s).t,
                        simpleCloneElement(p, Read(h, s).t, Loc(Len(h) + 1),
                                           Alloc(h, Read(h, s).t, Read(h, s).v)))
           [] OTHER -> Cloned(h, Read(h, s))

\* copyStruct going on with the next fields after a field has failed
copyStructNext_GoOn(p, tag, T, s, d, i, r) ==
    IF r.err # <<>>
    THEN Fail(copyStructFrom(p, tag, T, s, d, r.h, i + 1).h, <<Fields(T)[i].name>> \o r.err)
    ELSE copyStructFrom(p, tag, T, s, d, r.h, i + 1)

\* copyStruct without the isProtected check: every exported field is copied
copyStructFrom_Unprotected(p, tag, T, s, d, h, i) ==
    IF i > NumField(T) THEN Ok(h)
    ELSE IF ~Fields(T)[i].exported THEN copyStructFrom(p, tag, T, s, d, h, i + 1)
    ELSE copyStructNext(p, tag, T, s, d, i,
                        copyValue(p, tag, Fields(T)[i].type, Sub(s, i), Sub(d, i), h))

\* the loop of copyStruct, from field i on
copyStructFrom(p, tag, T, s, d, h, i) ==
    IF i > NumField(T) THEN Ok(h)
    ELSE IF ~Fields(T)[i].exported THEN copyStructFrom(p, tag, T, s, d, h, i + 1)
    ELSE IF tag # <<>> /\ isProtected(TagGet(Fields(T)[i], p.tagName), tag)
    THEN copyStructFrom(p, tag, T, s, d, h, i + 1)
    ELSE copyStructNext(p, tag, T, s, d, i,
                        copyValue(p, tag, Fields(T)[i].type, Sub(s, i), Sub(d, i), h))

\* if err != nil { return fmt.Errorf("error copying field %s: %w", ...) }, then the next field
copyStructNext(p, tag, T, s, d, i, r) ==
    IF r.err # <<>> THEN Fail(r.h, <<Fields(T)[i].name>> \o r.err)
    ELSE copyStructFrom(p, tag, T, s, d, r.h, i + 1)

copyStruct(p, tag, T, s, d, h) == copyStructFrom(p, tag, T, s, d, h, 1)

\* copyPtr that allocates a new target even when dst already points to one
copyPtr_Fresh(p, tag, T, s, d, h) ==
    IF Read(h, s) = NIL THEN Ok(Write(h, d, NIL))
    ELSE copyValue(p, tag, Elem(T), Loc(Read(h, s)), Loc(Len(h) + 1),
                   Write(Alloc(h, Elem(T), Zero(Elem(T))), d, Len(h) + 1))

\* copyPtr that leaves dst alone when src is nil
copyPtr_KeepOnNil(p, tag, T, s, d, h) ==
    IF Read(h, s) = NIL THEN Ok(h)
    ELSE LET h1 == IF Read(h, d) = NIL
                   THEN Write(Alloc(h, Elem(T), Zero(Elem(T))), d, Len(h) + 1)
                   ELSE h
         IN copyValue(p, tag, Elem(T), Loc(Read(h1, s)), Loc(Read(h1, d)), h1)

\* copyPtr that sets dst to the pointer src holds
copyPtr_Alias(p, tag, T, s, d, h) == Ok(Write(h, d, Read(h, s)))

copyPtr(p, tag, T, s, d, h) ==
    IF Read(h, s) = NIL THEN Ok(Write(h, d, NIL))
    ELSE LET h1 == IF Read(h, d) = NIL
                   THEN Write(Alloc(h, Elem(T), Zero(Elem(T))), d, Len(h) + 1)
                   ELSE h
         IN copyValue(p, tag, Elem(T), Loc(Read(h1, s)), Loc(Read(h1, d)), h1)

\* dst.Set(dstElem), unless the copy into dstElem failed
copyInterfaceSet(d, t, dstElem, r) ==
    IF r.err # <<>> THEN r ELSE Ok(Write(r.h, d, [t |-> t, v |-> Read(r.h, dstElem)]))

\* copyInterface copying into the value dst holds when it is of the source's type
copyInterface_Merge(p, tag, T, s, d, h) ==
    IF Read(h, s).t = "" THEN Ok(Write(h, d, NilIface))
    ELSE copyInterfaceSet(d, Read(h, s).t, Loc(Len(h) + 2),
            copyValue(p, tag, Read(h, s).t, Loc(Len(h) + 1), Loc(Len(h) + 2),
                      Alloc(Alloc(h, Read(h, s).t, Read(h, s).v), Read(h, s).t,
                            IF Read(h, d).t = Read(h, s).t THEN Read(h, d).v
                            ELSE Zero(Read(h, s).t))))

\* srcElem := src.Elem() is the cell after the heap's last, dstElem the one after it
copyInterface(p, tag, T, s, d, h) ==
    IF Read(h, s).t = "" THEN Ok(Write(h, d, NilIface))
    ELSE copyInterfaceSet(d, Read(h, s).t, Loc(Len(h) + 2),
            copyValue(p, tag, Read(h, s).t, Loc(Len(h) + 1), Loc(Len(h) + 2),
                      Alloc(Alloc(h, Read(h, s).t, Read(h, s).v),
                            Read(h, s).t, Zero(Read(h, s).t))))

\* src.Index(i), dst.Index(i): the element's location, through the header as it is now
Index(h, l, i) == Sub(Loc(Read(h, l).a), i)

\* the loops of the longer and shorter cases copying with the empty tag
copyElems_NoTag(p, tag, T, s, d, h, i, n) ==
    IF i > n THEN Ok(h)
    ELSE copyElemsNext(p, tag, T, s, d, i, n,
                       copyValue(p, NoTag, Elem(T), Index(h, s, i), Index(h, d, i), h))

\* the loops of the longer and shorter cases: copyValue on elements i..n
copyElems(p, tag, T, s, d, h, i, n) ==
    IF i > n THEN Ok(h)
    ELSE copyElemsNext(p, tag, T, s, d, i, n,
                       copyValue(p, tag, Elem(T), Index(h, s, i), Index(h, d, i), h))

\* if err != nil { return err }, then the next element
copyElemsNext(p, tag, T, s, d, i, n, r) ==
    IF r.err # <<>> THEN r ELSE copyElems(p, tag, T, s, d, r.h, i + 1, n)

\* the loop of the match case, from element i on
copyMatchElems(p, tag, T, s, d, h, i, srcLen, dstLen) ==
    IF i > srcLen THEN Ok(h)
    ELSE IF i <= dstLen \/ Kind(Elem(T)) # "struct"
    THEN copyMatchNext(p, tag, T, s, d, i, srcLen, dstLen,
                       copyValue(p, tag, Elem(T), Index(h, s, i), Index(h, d, i), h))
    ELSE copyMatchNewSet(p, tag, T, s, d, i, srcLen, dstLen, Index(h, d, i),
                         Loc(Len(h) + 1),
                         copyStruct(p, tag, Elem(T), Index(h, s, i), Loc(Len(h) + 1),
                                    Alloc(h, Elem(T), Zero(Elem(T)))))

\* if err != nil { return err }, then the next element
copyMatchNext(p, tag, T, s, d, i, srcLen, dstLen, r) ==
    IF r.err # <<>> THEN r
    ELSE copyMatchElems(p, tag, T, s, d, r.h, i + 1, srcLen, dstLen)

\* if err != nil { return err }; dstElem.Set(newStructVal), then the next element
copyMatchNewSet(p, tag, T, s, d, i, srcLen, dstLen, dstElem, newStructVal, r) ==
    IF r.err # <<>> THEN r
    ELSE copyMatchElems(p, tag, T, s, d, Write(r.h, dstElem, Read(r.h, newStructVal)),
                        i + 1, srcLen, dstLen)

\* the resizing without the loop that copies dst's existing elements
Resize_Zeroed(h, T, d, n, copyLen) ==
    Write(MakeSlice(h, T, n).h, d, MakeSlice(h, T, n).v)

\* newSlice of length n holding dst's first copyLen elements, set into dst
Resize(h, T, d, n, copyLen) ==
    LET old == h[Read(h, d).a].v
        m == MakeSlice(h, T, n)
    IN Write([m.h EXCEPT ![m.v.a].v =
                 [i \in 1..n |-> IF i <= copyLen THEN old[i] ELSE @[i]]],
             d, m.v)

\* the overwrite case: every element cloned into newSlice, newSlice set into dst
copySliceOverwrite(p, T, s, d, h, m) ==
    Ok(Write(simpleCloneElems(p, Elem(T), Read(h, s).a, m.v.a, m.h, 1, Read(h, s).n),
             d, m.v))

copySlice(p, tag, T, s, d, h) ==
    IF Read(h, s).a = NIL THEN Ok(Write(h, d, NilSlice))
    ELSE LET option == getSliceOption(p, Read(h, d))
             srcLen == Read(h, s).n
             dstLen == Read(h, d).n
         IN CASE option = "overwrite" ->
                   copySliceOverwrite(p, T, s, d, h, MakeSlice(h, T, srcLen))
              [] option = "match" ->
                   copyMatchElems(p, tag, T, s, d,
                                  IF dstLen # srcLen
                                  THEN Resize(h, T, d, srcLen, Min(dstLen, srcLen))
                                  ELSE h,
                                  1, srcLen, dstLen)
              [] option = "longer" ->
                   copyElems(p, tag, T, s, d,
                             IF dstLen < srcLen THEN Resize(h, T, d, srcLen, dstLen) ELSE h,
                             1, Min(srcLen, dstLen))
              [] option = "shorter" ->
                   copyElems(p, tag, T, s, d, h, 1, Min(srcLen, dstLen))
              [] OTHER -> Fail(h, <<"unknown slice option", option>>)

\* the struct value the match case builds for a key present in dst: every
\* exported field set from srcV, then the protected ones set from dstV
MatchTemp(p, tag, VT, srcV, dstV) ==
    [j \in 1..NumField(VT) |->
        IF ~Fields(VT)[j].exported THEN Zero(Fields(VT)[j].type)
        ELSE IF tag # <<>> /\ isProtected(TagGet(Fields(VT)[j], p.tagName), tag)
        THEN dstV[j]
        ELSE srcV[j]]

\* the struct value the patch case builds for a key present in dst: dstV with
\* the fields that are not protected set from srcV
PatchTemp(p, tag, VT, srcV, dstV) ==
    [j \in 1..NumField(VT) |->
        IF ~Fields(VT)[j].exported THEN dstV[j]
        ELSE IF ~isProtected(TagGet(Fields(VT)[j], p.tagName), tag) \/ tag = <<>>
        THEN srcV[j]
        ELSE dstV[j]]

\* the value left in newV by p.copyValue(tag, srcV, newV), whose error is dropped
MergedResult(newV, r) == Cloned(r.h, Read(r.h, newV))

\* the value both cases build for a key present in dst whose value is no
\* struct: a copy of dstV, then copyValue from srcV into it
MergedValue(p, tag, VT, srcV, dstV, h) ==
    MergedResult(Loc(Len(h) + 2),
                 copyValue(p, tag, VT, Loc(Len(h) + 1), Loc(Len(h) + 2),
                           Alloc(Alloc(h, VT, srcV), VT, dstV)))

\* the value both cases build for a key absent from dst
ClonedValue(p, VT, srcV, h) ==
    simpleCloneElement(p, VT, Loc(Len(h) + 1), Alloc(h, VT, srcV))

\* the loop of the match case: keys i.. of the map at sm into newMap, dm being dst's map
copyMapMatch(p, tag, T, sm, dm, newMap, h, i) ==
    IF i > Len(KeyOrder) THEN h
    ELSE IF KeyOrder[i] \notin DOMAIN h[sm].v
    THEN copyMapMatch(p, tag, T, sm, dm, newMap, h, i + 1)
    ELSE LET k == KeyOrder[i]
             valid == dm # NIL /\ k \in DOMAIN h[dm].v
         IN copyMapMatchSet(p, tag, T, sm, dm, newMap, i,
               IF Kind(Elem(T)) = "struct" /\ valid
               THEN Cloned(h, MatchTemp(p, tag, Elem(T), h[sm].v[k], h[dm].v[k]))
               ELSE IF valid THEN MergedValue(p, tag, Elem(T), h[sm].v[k], h[dm].v[k], h)
               ELSE ClonedValue(p, Elem(T), h[sm].v[k], h))

\* newMap.SetMapIndex(k, newV), then the next key
copyMapMatchSet(p, tag, T, sm, dm, newMap, i, c) ==
    IF c.valid
    THEN copyMapMatch(p, tag, T, sm, dm, newMap,
                      [c.h EXCEPT ![newMap].v = Store(@, KeyOrder[i], c.v)], i + 1)
    ELSE copyMapMatch(p, tag, T, sm, dm, newMap, c.h, i + 1)

\* the loop of the patch case: keys i.. of the map at sm into the map at dm
copyMapPatch(p, tag, T, sm, dm, h, i) ==
    IF i > Len(KeyOrder) THEN h
    ELSE IF KeyOrder[i] \notin DOMAIN h[sm].v
    THEN copyMapPatch(p, tag, T, sm, dm, h, i + 1)
    ELSE LET k == KeyOrder[i]
             valid == k \in DOMAIN h[dm].v
         IN copyMapPatchSet(p, tag, T, sm, dm, i,
               IF valid /\ Kind(Elem(T)) = "struct"
               THEN Cloned(h, PatchTemp(p, tag, Elem(T), h[sm].v[k], h[dm].v[k]))
               ELSE IF valid THEN MergedValue(p, tag, Elem(T), h[sm].v[k], h[dm].v[k], h)
               ELSE ClonedValue(p, Elem(T), h[sm].v[k], h))

\* the patch case setting the key in the source map instead of dst
copyMapPatchSet_IntoSrc(p, tag, T, sm, dm, i, c) ==
    IF c.valid
    THEN copyMapPatch(p, tag, T, sm, dm,
                      [c.h EXCEPT ![sm].v = Store(@, KeyOrder[i], c.v)], i + 1)
    ELSE copyMapPatch(p, tag, T, sm, dm, c.h, i + 1)

\* dst.SetMapIndex(k, v), then the next key
copyMapPatchSet(p, tag, T, sm, dm, i, c) ==
    IF c.valid
    THEN copyMapPatch(p, tag, T, sm, dm,
                      [c.h EXCEPT ![dm].v = Store(@, KeyOrder[i], c.v)], i + 1)
    ELSE copyMapPatch(p, tag, T, sm, dm, c.h, i + 1)

copyMap(p, tag, T, s, d, h) ==
    IF Read(h, s) = NIL THEN Ok(Write(h, d, NIL))
    ELSE LET option == getMapOption(p, Read(h, d)) IN
         CASE option = "overwrite" ->
                Ok(Write(simpleCloneEntries(p, Elem(T), Read(h, s), Len(h) + 1,
                                            Alloc(h, T, <<>>), 1),
                         d, Len(h) + 1))
           [] option = "match" ->
                Ok(Write(copyMapMatch(p, tag, T, Read(h, s), Read(h, d), Len(h) + 1,
                                      Alloc(h, T, <<>>), 1),
                         d, Len(h) + 1))
           [] option = "patch" ->
                LET h1 == IF Read(h, d) = NIL
                          THEN Write(Alloc(h, T, <<>>), d, Len(h) + 1)
                          ELSE h
                IN Ok(copyMapPatch(p, tag, T, Read(h1, s), Read(h1, d), h1, 1))
           [] OTHER -> Fail(h, <<"unknown map option", option>>)

copyValue(p, tag, T, s, d, h) ==
    IF Kind(T) = "struct" /\ IsPrimitiveStruct(p, T) THEN Ok(Write(h, d, Read(h, s)))
    ELSE CASE Kind(T) = "struct" -> copyStruct(p, tag, T, s, d, h)
           [] Kind(T) = "ptr" -> copyPtr(p, tag, T, s, d, h)
           [] Kind(T) = "slice" -> copySlice(p, tag, T, s, d, h)
           [] Kind(T) = "map" -> copyMap(p, tag, T, s, d, h)
           [] Kind(T) = "interface" -> copyInterface(p, tag, T, s, d, h)
           [] OTHER -> Ok(Write(h, d, Read(h, s)))

----------------------------------------------------------------------------
(* The exported entry points.  An argument of type interface{} is          *)
(* [k |-> "nil"] (untyped nil), [k |-> "ptr", t, a] (a *t, nil when a is   *)
(* NIL) or [k |-> "val", t, a] (a t held by value, its copy in the cell a) *)

NilArg == [k |-> "nil", t |-> "", a |-> NIL]
PtrArg(T, a) == [k |-> "ptr", t |-> T, a |-> a]
ValArg(T, a) == [k |-> "val", t |-> T, a |-> a]

\* the checks without the one that dst is a pointer
ArgError_NoKindCheck(src, dst) ==
    IF src.k = "nil" \/ dst.k = "nil" THEN <<"src and dst must not be nil">>
    ELSE IF src.k = "ptr" /\ src.a = NIL THEN <<"src must not be nil pointer">>
    ELSE IF dst.a = NIL THEN <<"dst must not be nil pointer">>
    ELSE IF src.t # dst.t THEN <<"src and dst must be the same type">>
    ELSE <<>>

\* the checks Copy and CopySlice make before anything is copied; <<>> when they pass
ArgError(src, dst) ==
    IF src.k = "nil" \/ dst.k = "nil" THEN <<"src and dst must not be nil">>
    ELSE IF src.k = "ptr" /\ src.a = NIL THEN <<"src must not be nil pointer">>
    ELSE IF dst.k # "ptr" THEN <<"dst must be a pointer">>
    ELSE IF dst.a = NIL THEN <<"dst must not be nil pointer">>
    ELSE IF src.t # dst.t THEN <<"src and dst must be the same type">>
    ELSE <<>>

Copy(p, tag, src, dst, h) ==
    IF ArgError(src, dst) # <<>> THEN Fail(h, ArgError(src, dst))
    ELSE copyValue(p, tag, src.t, Loc(src.a), Loc(dst.a), h)

\* CopySlice returning without the deferred Delete
CopySliceReturn_NoDelete(so, key, r) ==
    [h |-> r.h, err |-> r.err, sliceOptions |-> so]

\* what CopySlice returns: heap, error and the registry once the deferred Delete has run
CopySliceReturn(so, key, r) ==
    [h |-> r.h, err |-> r.err, sliceOptions |-> Delete(so, key)]

\* CopySlice: the heap, the error and the registry it leaves
CopySlice(p, tag, src, dst, option, h) ==
    IF ArgError(src, dst) # <<>>
    THEN [h |-> h, err |-> ArgError(src, dst), sliceOptions |-> p.sliceOptions]
    ELSE IF Kind(src.t) # "slice" \/ Kind(dst.t) # "slice"
    THEN [h |-> h, err |-> <<"src and dst must be slices">>,
          sliceOptions |-> p.sliceOptions]
    ELSE LET key == SliceKey(Read(h, Loc(dst.a)))
             p1 == [p EXCEPT !.sliceOptions = Store(@, key, option)]
         IN CopySliceReturn(p1.sliceOptions, key,
                            copySlice(p1, tag, src.t, Loc(src.a), Loc(dst.a), h))

\* what Clone returns: the copy's error is dropped
CloneReturn(src, dstVal, r) == [h |-> r.h, v |-> [k |-> src.k, t |-> src.t, a |-> dstVal]]

\* Clone: the heap it leaves and the interface{} it returns
Clone(p, src, h) ==
    IF src.k = "nil" \/ (src.k = "ptr" /\ src.a = NIL) THEN [h |-> h, v |-> NilArg]
    ELSE CloneReturn(src, Len(h) + 1,
                     copyValue(p, NoTag, src.t, Loc(src.a), Loc(Len(h) + 1),
                               Alloc(h, src.t, Zero(src.t))))

----------------------------------------------------------------------------
(* Deep values.  A deep value is a Go value with everything it refers to:  *)
(* a pointer is <<>> (nil) or <<target>>, a slice is [nil, e], a map is    *)
(* [nil, m], an interface is [t, v]; structs and basic values as above.    *)
(* Build puts a deep value into the heap, Tree reads one out of it.        *)

NilSliceLit == [nil |-> TRUE, e |-> <<>>]
SliceLit(e) == [nil |-> FALSE, e |-> e]
NilMapLit == [nil |-> TRUE, m |-> <<>>]
MapLit(m) == [nil |-> FALSE, m |-> m]

RECURSIVE Build(_, _, _)
RECURSIVE BuildSeq(_, _, _, _, _)
RECURSIVE BuildSeqNext(_, _, _, _, _)
RECURSIVE BuildMap(_, _, _, _, _)
RECURSIVE BuildMapNext(_, _, _, _, _)

Built(h, v) == [h |-> h, v |-> v, valid |-> TRUE]

\* the values lits[i..], of the types typeOf[i..], appended to acc
BuildSeq(typeOf, lits, h, i, acc) ==
    IF i > Len(lits) THEN Built(h, acc)
    ELSE BuildSeqNext(typeOf, lits, i, acc, Build(typeOf[i], lits[i], h))

BuildSeqNext(typeOf, lits, i, acc, b) ==
    IF b.valid THEN BuildSeq(typeOf, lits, b.h, i + 1, Append(acc, b.v)) ELSE b

\* the values of the map literal m, from the i-th key on, added to acc
BuildMap(VT, m, h, i, acc) ==
    IF i > Len(KeyOrder) THEN Built(h, acc)
    ELSE IF KeyOrder[i] \notin DOMAIN m THEN BuildMap(VT, m, h, i + 1, acc)
    ELSE BuildMapNext(VT, m, i, acc, Build(VT, m[KeyOrder[i]], h))

BuildMapNext(VT, m, i, acc, b) ==
    IF b.valid THEN BuildMap(VT, m, b.h, i + 1, Store(acc, KeyOrder[i], b.v)) ELSE b

\* the cell of type T holding what b built, and the value that refers to it
BuildCell(T, b, n) ==
    IF Kind(T) = "slice" THEN Built(Alloc(b.h, T, b.v), [a |-> Len(b.h) + 1, n |-> n])
    ELSE Built(Alloc(b.h, T, b.v), Len(b.h) + 1)

BuildIface(t, b) == Built(b.h, [t |-> t, v |-> b.v])

Build(T, lit, h) ==
    CASE Kind(T) = "struct" ->
            BuildSeq([i \in 1..NumField(T) |-> Fields(T)[i].type], lit, h, 1, <<>>)
      [] Kind(T) = "ptr" ->
            IF lit = <<>> THEN Built(h, NIL)
            ELSE BuildCell(Elem(T), Build(Elem(T), lit[1], h), 0)
      [] Kind(T) = "slice" ->
            IF lit.nil THEN Built(h, NilSlice)
            ELSE IF lit.e = <<>> THEN Built(h, [a |-> ZeroBase, n |-> 0])
            ELSE BuildCell(T, BuildSeq([i \in 1..Len(lit.e) |-> Elem(T)], lit.e, h, 1, <<>>),
                           Len(lit.e))
      [] Kind(T) = "map" ->
            IF lit.nil THEN Built(h, NIL)
            ELSE BuildCell(T, BuildMap(Elem(T), lit.m, h, 1, <<>>), 0)
      [] Kind(T) = "interface" ->
            IF lit.t = "" THEN Built(h, NilIface)
            ELSE BuildIface(lit.t, Build(lit.t, lit.v, h))
      [] OTHER -> Built(h, lit)

RECURSIVE Tree(_, _, _)
Tree(T, v, h) ==
    CASE Kind(T) = "struct" -> [i \in 1..NumField(T) |-> Tree(Fields(T)[i].type, v[i], h)]
      [] Kind(T) = "ptr" -> IF v = NIL THEN <<>> ELSE <<Tree(Elem(T), h[v].v, h)>>
      [] Kind(T) = "slice" ->
            IF v.a = NIL THEN NilSliceLit
            ELSE SliceLit([i \in 1..v.n |-> Tree(Elem(T), h[v.a].v[i], h)])
      [] Kind(T) = "map" ->
            IF v = NIL THEN NilMapLit
            ELSE MapLit([k \in DOMAIN h[v].v |-> Tree(Elem(T), h[v].v[k], h)])
      [] Kind(T) = "interface" ->
            IF v.t = "" THEN NilIface ELSE [t |-> v.t, v |-> Tree(v.t, v.v, h)]
      [] OTHER -> v

\* the deep value of the variable at address a
TreeAt(T, a, h) == Tree(T, h[a].v, h)

RECURSIVE Reach(_, _, _)
\* the addresses of the cells a value refers to, directly or not
Reach(T, v, h) ==
    CASE Kind(T) = "struct" ->
            UNION {Reach(Fields(T)[i].type, v[i], h) : i \in 1..NumField(T)}
      [] Kind(T) = "ptr" ->
            IF v = NIL THEN {} ELSE {v} \cup Reach(Elem(T), h[v].v, h)
      [] Kind(T) = "slice" ->
            IF v.a = NIL \/ v.n = 0 THEN {}
            ELSE {v.a} \cup UNION {Reach(Elem(T), h[v.a].v[i], h) : i \in 1..v.n}
      [] Kind(T) = "map" ->
            IF v = NIL THEN {}
            ELSE {v} \cup UNION {Reach(Elem(T), h[v].v[k], h) : k \in DOMAIN h[v].v}
      [] Kind(T) = "interface" -> IF v.t = "" THEN {} ELSE Reach(v.t, v.v, h)
      [] OTHER -> {}

ReachAt(T, a, h) == Reach(T, h[a].v, h)

----------------------------------------------------------------------------
(* The callers.  A caller declares two variables src and dst of one type,  *)
(* fills them with literals, may register option overrides for dst's       *)
(* containers (as the tests do with setSliceOption and setMapOption) and   *)
(* then calls Copy, CopySlice and Clone.                                   *)

Str(prefix, i) == prefix \o ToString(i)

\* SimpleStruct{ID, Code, Name} literal number i of a side
Simple(side, i) == <<Str(side \o "-id", i), Str(side \o "-code", i), Str(side \o "-name", i)>>

\* NestedStruct{ID, Parent, Child} literal number i of a side
Nested(side, i, hasParent) ==
    << Str(side \o "-nid", i),
       IF hasParent THEN <<Simple(side \o "p", i)>> ELSE <<>>,
       Simple(side \o "c", i) >>

ZeroLit(T) == Tree(T, Zero(T), <<>>)

SimpleSlices(side) ==
    {NilSliceLit} \cup {SliceLit([i \in 1..n |-> Simple(side, i)]) : n \in 0..MaxLen}

NestedSlices(side) ==
    {NilSliceLit} \cup
    {SliceLit([i \in 1..n |-> Nested(side, i, (i + v) % 2 = 0)]) : n \in 0..MaxLen, v \in 0..1}

\* the keys a side's map literals use: "first" is common to both sides
SideKeys(side) == IF side = "s" THEN {"first", "second"} ELSE {"first", "third"}
KeySets(side) == {{}, {"first"}, SideKeys(side)}
KeyNo(k) == CHOOSE i \in 1..Len(KeyOrder) : KeyOrder[i] = k

SimpleMaps(side) ==
    {NilMapLit} \cup {MapLit([k \in ks |-> Simple(side, KeyNo(k))]) : ks \in KeySets(side)}

NestedMaps(side) ==
    {NilMapLit} \cup
    {MapLit([k \in ks |-> Nested(side, KeyNo(k), TRUE)]) : ks \in KeySets(side)} \cup
    {MapLit([k \in {"first"} |-> Nested(side, 1, FALSE)])}

PtrMaps(side) ==
    {NilMapLit} \cup
    {MapLit([k \in ks |-> <<Simple(side, KeyNo(k))>>]) : ks \in KeySets(side)}

TimeLit(i) == <<100 + i, 200 + i>>

\* Account{ID, secret, Name} literal number i of a side
AccountLit(side, i) ==
    <<Str(side \o "-cid", i), Str(side \o "-secret", i), Str(side \o "-cname", i)>>

TimeSlices(side) ==
    {NilSliceLit} \cup
    {SliceLit([i \in 1..n |-> TimeLit(IF side = "s" THEN i ELSE 10 + i)]) : n \in 0..MaxLen}

TimeMaps(side) ==
    {NilMapLit} \cup
    {MapLit([k \in ks |-> TimeLit(IF side = "s" THEN KeyNo(k) ELSE 10 + KeyNo(k))]) :
        ks \in KeySets(side)}

\* slices of SliceWithOptions and maps of slices: a slice inside an element or a value
ItemSlices(side) == {NilSliceLit, SliceLit(<<Simple(side, 1)>>)}

OptionSlices(side) ==
    {NilSliceLit, SliceLit(<<>>)} \cup
    {SliceLit(<<<<Str(side \o "-wid", 1), items, NilMapLit>>>>) : items \in ItemSlices(side)}

SliceMaps(side) ==
    {NilMapLit} \cup
    {MapLit([k \in ks |-> items]) : ks \in KeySets(side), items \in ItemSlices(side)}

AccountSlices(side) ==
    {NilSliceLit} \cup {SliceLit([i \in 1..n |-> AccountLit(side, i)]) : n \in 0..MaxLen}

\* Envelope{Title, Body, Note} literals: the Body holds a slice or a map
Envelopes(side) ==
    {<<Str(side \o "-title", 1), <<Str(side \o "-wid", 1), sl, m>>, Str(side \o "-note", 1)>> :
        sl \in {NilSliceLit, SliceLit(<<Simple(side, 1)>>)},
        m \in {NilMapLit, MapLit([k \in {"first"} |-> Simple(side, 1)])}}

\* the literals a caller writes for a variable of type T on a side ("s": src, "d": dst)
Lits(T, side) ==
    LET both == CASE T = "SimpleStruct" -> {Simple(side, 1)}
                  [] T = "NestedStruct" -> {Nested(side, 1, b) : b \in BOOLEAN}
                  [] T = "[]SimpleStruct" -> SimpleSlices(side)
                  [] T = "[]NestedStruct" -> NestedSlices(side)
                  [] T \in {"SliceWithOptions", "AnnotatedItems"} ->
                        {<<Str(side \o "-wid", 1), sl, NilMapLit>> : sl \in SimpleSlices(side)}
                        \cup {<<Str(side \o "-wid", 1), NilSliceLit, m>> : m \in SimpleMaps(side)}
                  [] T = "map[string]SimpleStruct" -> SimpleMaps(side)
                  [] T = "map[string]NestedStruct" -> NestedMaps(side)
                  [] T = "map[string]*SimpleStruct" -> PtrMaps(side)
                  [] T = "TimeStruct" ->
                        {<<Str(side \o "-tid", 1), TimeLit(IF side = "s" THEN 1 ELSE 11), up,
                           Str(side \o "-tname", 1)>> :
                            up \in {<<>>, <<TimeLit(IF side = "s" THEN 2 ELSE 12)>>}}
                  [] T = "Account" -> {AccountLit(side, 1)}
                  [] T = "[]Time" -> TimeSlices(side)
                  [] T = "[]Account" -> AccountSlices(side)
                  [] T = "map[string]Time" -> TimeMaps(side)
                  [] T = "[]SliceWithOptions" -> OptionSlices(side)
                  [] T = "map[string][]SimpleStruct" -> SliceMaps(side)
                  [] T = "AnyStruct" ->
                        {<<Str(side \o "-aid", 1), v>> :
                            v \in {NilIface, [t |-> "SimpleStruct", v |-> Simple(side, 1)],
                                   [t |-> "*SimpleStruct", v |-> <<Simple(side, 2)>>]}}
                  [] T = "Envelope" -> Envelopes(side)
                  [] T = "Other" -> {<<Str(side \o "-other", 1)>>}
    IN IF side = "d" /\ Kind(T) = "struct" /\ T # "Other" THEN both \cup {ZeroLit(T)}
       ELSE both

\* the root types of the callers of each specification
AllTypes == {"SimpleStruct", "NestedStruct", "[]SimpleStruct", "[]NestedStruct",
             "SliceWithOptions", "map[string]SimpleStruct", "map[string]NestedStruct",
             "map[string]*SimpleStruct", "TimeStruct", "Account", "AnyStruct",
             "[]Time", "[]Account", "map[string]Time", "AnnotatedItems"}

Tags == {NoTag, Create, Update}
SliceOptionNames == {"overwrite", "match", "longer", "shorter", "bogus"}
MapOptionNames == {"overwrite", "match", "patch", "bogus"}

\* what a caller keeps of the call before the last one
Earlier(l) == [op |-> l.op, tag |-> l.tag, src |-> l.src, dst |-> l.dst, err |-> l.err]

NoCall == [op |-> "", tag |-> NoTag, option |-> "", src |-> "", dst |-> "", err |-> <<>>,
           prev |-> [op |-> "", tag |-> NoTag, src |-> "", dst |-> "", err |-> <<>>]]
EmptyMap == [k \in {} |-> ""]

\* the heap once the variable holding what b built is declared
Declare(T, b) == Alloc(b.h, T, b.v)

\* the heap once src, dst and a variable of another type are declared
InitHeap(T, s, d) ==
    LET h1 == Declare(T, Build(T, s, <<[t |-> "zerobase", v |-> <<>>]>>))
        h2 == Declare(T, Build(T, d, h1))
    IN [h |-> Alloc(h2, "Other", <<"other">>), src |-> Len(h1), dst |-> Len(h2)]

\* a caller that is no handler has no request
NoBody == [k |-> "none"]
NoRequest == [body |-> NoBody, saved |-> NoBody, rebindable |-> FALSE]

\* a caller that starts no goroutine
NoProcs == <<>>

\* a caller of the engine: its variables, the engine as NewProtector leaves it
InitCaller(types, lim, shapes) ==
    /\ rootT \in types
    /\ \E s \in Lits(rootT, "s"), d \in Lits(rootT, "d") :
          LET i == InitHeap(rootT, s, d) IN
          /\ heap = i.h
          /\ srcA = i.src
          /\ dstA = i.dst
          /\ othA = Len(i.h)
    /\ sliceOptions = EmptyMap
    /\ mapOptions = EmptyMap
    /\ primitiveStructs = {"Time"}
    /\ ret = NilArg
    /\ pre = [heap |-> heap, sliceOptions |-> sliceOptions, mapOptions |-> mapOptions,
              req |-> req]
    /\ last = NoCall
    /\ calls = 0
    /\ caller = [limit |-> lim, shapes |-> shapes]

InitWith(types, lim, shapes) ==
    /\ req = NoRequest
    /\ procs = NoProcs
    /\ InitCaller(types, lim, shapes)
    /\ tagValue = <<>>
    /\ tagArg = <<>>
    /\ protected = FALSE

\* the callers of Spec make one call, with a pointer to src and a pointer to dst
Init == InitWith(AllTypes, 1, "good")

\* dst's containers a caller may register an override for: their locations and types
DstSlices ==
    IF rootT = "[]SliceWithOptions"
    THEN {[l |-> Loc(dstA), t |-> rootT]} \cup
         {[l |-> Sub(Index(heap, Loc(dstA), i), 2), t |-> "[]SimpleStruct"] :
             i \in 1..Read(heap, Loc(dstA)).n}
    ELSE IF Kind(rootT) = "slice" THEN {[l |-> Loc(dstA), t |-> rootT]}
    ELSE IF rootT \in {"SliceWithOptions", "AnnotatedItems"}
    THEN {[l |-> Sub(Loc(dstA), 2), t |-> "[]SimpleStruct"]}
    ELSE IF rootT = "Envelope"
    THEN {[l |-> Sub(Sub(Loc(dstA), 2), 2), t |-> "[]SimpleStruct"]}
    ELSE IF rootT = "map[string][]SimpleStruct" /\ Read(heap, Loc(dstA)) # NIL
    THEN {[l |-> Sub(Loc(Read(heap, Loc(dstA))), k), t |-> "[]SimpleStruct"] :
             k \in DOMAIN heap[Read(heap, Loc(dstA))].v}
    ELSE {}

DstMaps ==
    IF Kind(rootT) = "map" THEN {Loc(dstA)}
    ELSE IF rootT \in {"SliceWithOptions", "AnnotatedItems"} THEN {Sub(Loc(dstA), 3)}
    ELSE IF rootT = "Envelope" THEN {Sub(Sub(Loc(dstA), 2), 3)}
    ELSE {}

\* p.setSliceOption(slice, option)
setSliceOption(so, slice, option) == Store(so, SliceKey(slice), option)

\* p.setMapOption(m, option)
setMapOption(mo, m, option) == Store(mo, m, option)

DoSetSliceOption(option) ==
    /\ calls = 0
    /\ \E c \in DstSlices :
          /\ SliceKey(Read(heap, c.l)) \notin DOMAIN sliceOptions
          /\ sliceOptions' = setSliceOption(sliceOptions, Read(heap, c.l), option)
    /\ UNCHANGED <<heap, mapOptions, primitiveStructs, rootT, srcA, dstA, othA, ret,
                   pre, last, calls, caller, tagValue, tagArg, protected, req, procs>>

DoSetMapOption(option) ==
    /\ calls = 0
    /\ \E l \in DstMaps :
          /\ Read(heap, l) \notin DOMAIN mapOptions
          /\ mapOptions' = setMapOption(mapOptions, Read(heap, l), option)
    /\ UNCHANGED <<heap, sliceOptions, primitiveStructs, rootT, srcA, dstA, othA, ret,
                   pre, last, calls, caller, tagValue, tagArg, protected, req, procs>>

\* what a caller passes for src: &src, src itself, nil, a nil pointer; for dst: &dst,
\* dst itself, nil, a nil pointer, a pointer to the variable of another type.  A caller
\* may also pass the two variables the other way round: &dst for src and &src for dst
SrcShapes == {"ptr", "val", "nil", "nilptr"}
DstShapes == {"ptr", "val", "nil", "nilptr", "other"}
Swapped == <<"ptr2", "ptr2">>
AllShapes == (SrcShapes \X DstShapes) \cup {Swapped}

\* the shapes of arguments a caller passes
ShapePairs ==
    CASE caller.shapes = "all" -> SrcShapes \X DstShapes
      [] caller.shapes = "seq" -> {<<"ptr", "ptr">>, Swapped}
      [] caller.shapes = "twice" -> {<<"ptr", "ptr">>}
      [] OTHER -> {<<"ptr", "ptr">>}

\* the operation tags and the CopySlice options a caller passes
CallerTags ==
    CASE caller.shapes = "seq" -> {Update}
      [] caller.shapes = "twice" -> {NoTag}
      [] OTHER -> Tags
CallerOptions ==
    CASE caller.shapes = "seq" -> {"match", "longer"}
      [] caller.shapes = "twice" -> {"match"}
      [] OTHER -> SliceOptionNames

\* the heap once the arguments are evaluated (a value argument is a copy) and the arguments
Args(sh) ==
    LET h1 == IF sh[1] = "val" THEN Alloc(heap, rootT, heap[srcA].v) ELSE heap
        h2 == IF sh[2] = "val" THEN Alloc(h1, rootT, heap[dstA].v) ELSE h1
    IN [h |-> h2,
        src |-> CASE sh[1] = "ptr" -> PtrArg(rootT, srcA)
                  [] sh[1] = "ptr2" -> PtrArg(rootT, dstA)
                  [] sh[1] = "val" -> ValArg(rootT, Len(h1))
                  [] sh[1] = "nilptr" -> PtrArg(rootT, NIL)
                  [] OTHER -> NilArg,
        dst |-> CASE sh[2] = "ptr" -> PtrArg(rootT, dstA)
                  [] sh[2] = "ptr2" -> PtrArg(rootT, srcA)
                  [] sh[2] = "val" -> ValArg(rootT, Len(h2))
                  [] sh[2] = "nilptr" -> PtrArg(rootT, NIL)
                  [] sh[2] = "other" -> PtrArg("Other", othA)
                  [] OTHER -> NilArg]

Snapshot(h) ==
    [heap |-> h, sliceOptions |-> sliceOptions, mapOptions |-> mapOptions, req |-> req]

\* the caller's state once Copy has returned r
CopyDone(tag, sh, h0, r) ==
    /\ heap' = r.h
    /\ pre' = Snapshot(h0)
    /\ last' = [op |-> "Copy", tag |-> tag, option |-> "", src |-> sh[1], dst |-> sh[2],
                err |-> r.err, prev |-> Earlier(last)]

DoCopy(tag, sh) ==
    /\ calls < caller.limit
    /\ sh \in ShapePairs
    /\ tag \in CallerTags
    /\ LET a == Args(sh) IN CopyDone(tag, sh, a.h, Copy(Protector, tag, a.src, a.dst, a.h))
    /\ ret' = NilArg
    /\ calls' = calls + 1
    /\ UNCHANGED <<sliceOptions, mapOptions, primitiveStructs, rootT, srcA, dstA, othA,
                   caller, tagValue, tagArg, protected, req, procs>>

\* the caller's state once CopySlice has returned r
CopySliceDone(tag, option, sh, h0, r) ==
    /\ heap' = r.h
    /\ sliceOptions' = r.sliceOptions
    /\ pre' = Snapshot(h0)
    /\ last' = [op |-> "CopySlice", tag |-> tag, option |-> option, src |-> sh[1],
                dst |-> sh[2], err |-> r.err, prev |-> Earlier(last)]

DoCopySlice(tag, option, sh) ==
    /\ calls < caller.limit
    /\ sh \in ShapePairs
    /\ tag \in CallerTags
    /\ option \in CallerOptions
    /\ LET a == Args(sh) IN
       CopySliceDone(tag, option, sh, a.h,
                     CopySlice(Protector, tag, a.src, a.dst, option, a.h))
    /\ ret' = NilArg
    /\ calls' = calls + 1
    /\ UNCHANGED <<mapOptions, primitiveStructs, rootT, srcA, dstA, othA,
                   caller, tagValue, tagArg, protected, req, procs>>

\* the caller's state once Clone has returned r
CloneDone(shape, h0, r) ==
    /\ heap' = r.h
    /\ ret' = r.v
    /\ pre' = Snapshot(h0)
    /\ last' = [op |-> "Clone", tag |-> NoTag, option |-> "", src |-> shape, dst |-> "",
                err |-> <<>>, prev |-> Earlier(last)]

DoClone(shape) ==
    /\ calls < caller.limit
    /\ \E sh \in ShapePairs : sh[1] = shape
    /\ LET a == Args(<<shape, "nil">>) IN CloneDone(shape, a.h, Clone(Protector, a.src, a.h))
    /\ calls' = calls + 1
    /\ UNCHANGED <<sliceOptions, mapOptions, primitiveStructs, rootT, srcA, dstA, othA,
                   caller, tagValue, tagArg, protected, req, procs>>

Next ==
    \/ \E option \in SliceOptionNames : DoSetSliceOption(option)
    \/ \E option \in MapOptionNames : DoSetMapOption(option)
    \/ \E tag \in Tags, sh \in AllShapes : DoCopy(tag, sh)
    \/ \E tag \in Tags, option \in SliceOptionNames, sh \in AllShapes :
          DoCopySlice(tag, option, sh)
    \/ \E shape \in SrcShapes \cup {"ptr2"} : DoClone(shape)

Spec == Init /\ [][Next]_vars

----------------------------------------------------------------------------
(* The callers of Spec, and callers that make MaxCalls calls in a row on   *)
(* the same two variables, in either direction                             *)

SeqTypes == {"NestedStruct", "map[string]NestedStruct"}

InitSeq == Init \/ InitWith(SeqTypes, MaxCalls, "seq")

SpecSeq == InitSeq /\ [][Next]_vars

----------------------------------------------------------------------------
(* Callers that pass every shape of argument: nil, a nil pointer, a value  *)
(* instead of a pointer, a pointer to a variable of another type           *)

ArgTypes == {"SimpleStruct", "[]SimpleStruct", "map[string]SimpleStruct"}

InitArgs == InitWith(ArgTypes, 1, "all")

SpecArgs == InitArgs /\ [][Next]_vars

----------------------------------------------------------------------------
(* Callers that make the same call with the empty tag twice in a row       *)

TwiceTypes == {"SimpleStruct", "NestedStruct", "TimeStruct", "Account", "AnyStruct",
               "[]SimpleStruct", "[]Account", "[]Time", "map[string]SimpleStruct",
               "map[string]Time", "map[string]*SimpleStruct"}

InitTwice == InitWith(TwiceTypes, 2, "twice")

SpecTwice == InitTwice /\ [][Next]_vars

----------------------------------------------------------------------------
(* Callers whose containers hold containers: a slice inside a slice        *)
(* element and inside a map value, besides a slice and a map in a field    *)

\* callers whose structs hold containers, one of them inside a struct of the struct
FailTypes == {"SliceWithOptions", "Envelope"}

InitFail == InitWith(FailTypes, 1, "good")

SpecFail == InitFail /\ [][Next]_vars

NestedTypes == {"[]SimpleStruct", "map[string]SimpleStruct", "SliceWithOptions",
                "[]SliceWithOptions", "map[string][]SimpleStruct"}

InitNested == InitWith(NestedTypes, 1, "good")

SpecNested == InitNested /\ [][Next]_vars

----------------------------------------------------------------------------
(* Callers of Clone, who afterwards change the original or the clone, as   *)
(* TestClone does.  They are outside the package: no override is           *)
(* registered.                                                             *)

\* the variable holding a side's value: the original x, or what Clone returned
SideRoot(side) == IF side = "x" THEN srcA ELSE ret.a

\* the cells a side's value is made of: the variable and all it refers to
SideCells(side, h) == {SideRoot(side)} \cup ReachAt(rootT, SideRoot(side), h)

\* the cell at a with its contents wiped: a variable or a pointer's target set to its
\* zero value, every element of a backing array set to zero, every key of a map deleted
Wiped(side, a, h) ==
    CASE a = SideRoot(side) -> [h[a] EXCEPT !.v = Zero(rootT)]
      [] Kind(h[a].t) = "slice" ->
            [h[a] EXCEPT !.v = [i \in DOMAIN h[a].v |-> Zero(Elem(h[a].t))]]
      [] Kind(h[a].t) = "map" -> [h[a] EXCEPT !.v = <<>>]
      [] OTHER -> [h[a] EXCEPT !.v = Zero(h[a].t)]

DoMutate(side, a) ==
    /\ last.op = "Clone"
    /\ ret.k # "nil"
    /\ a \in SideCells(side, heap)
    /\ Wiped(side, a, heap) # heap[a]
    /\ heap' = [heap EXCEPT ![a] = Wiped(side, a, heap)]
    /\ pre' = Snapshot(heap)
    /\ last' = [op |-> "Mutate", tag |-> NoTag, option |-> "", src |-> side, dst |-> "",
                err |-> <<>>, prev |-> Earlier(last)]
    /\ UNCHANGED <<sliceOptions, mapOptions, primitiveStructs, rootT, srcA, dstA, othA,
                   ret, calls, caller, tagValue, tagArg, protected, req, procs>>

NextClone ==
    \/ \E shape \in SrcShapes : DoClone(shape)
    \/ \E side \in {"x", "clone"}, a \in 1..Len(heap) : DoMutate(side, a)

InitClone == InitWith(AllTypes, 1, "all")

SpecClone == InitClone /\ [][NextClone]_vars

----------------------------------------------------------------------------
(* isProtected on its own: every exclusion-tag value and operation tag     *)
(* over a small alphabet                                                   *)

TagAlphabet == {"c", "u", ",", " "}

RECURSIVE StringsUpTo(_)
\* the strings over TagAlphabet of length n or less
StringsUpTo(n) ==
    IF n = 0 THEN {<<>>}
    ELSE StringsUpTo(n - 1) \cup
         {Append(s, ch) : s \in {t \in StringsUpTo(n - 1) : Len(t) = n - 1}, ch \in TagAlphabet}

InitTag ==
    /\ req = NoRequest
    /\ procs = NoProcs
    /\ InitCaller({"Other"}, 0, "good")
    /\ tagValue \in StringsUpTo(MaxTagLen)
    /\ tagArg \in StringsUpTo(MaxOpTagLen)
    /\ protected = FALSE

DoIsProtected ==
    /\ calls = 0
    /\ protected' = isProtected(tagValue, tagArg)
    /\ calls' = 1
    /\ UNCHANGED <<heap, sliceOptions, mapOptions, primitiveStructs, rootT, srcA, dstA,
                   othA, ret, pre, last, caller, tagValue, tagArg, req, procs>>

NextTag == DoIsProtected

SpecTag == InitTag /\ [][NextTag]_vars

----------------------------------------------------------------------------
(* protectecho: handlers that bind the request body.  A body is a JSON     *)
(* value, a text that is no JSON, or the empty text a reader gives once it *)
(* has been read to its end.                                               *)

JStr(s) == [k |-> "str", v |-> s]
JNum == [k |-> "num"]
JNull == [k |-> "null"]
JObj(m) == [k |-> "obj", m |-> m]
JArr(e) == [k |-> "arr", e |-> e]
Malformed == [k |-> "malformed"]
EmptyBody == [k |-> "empty"]

DecodeError == <<"json: cannot unmarshal">>
SyntaxError == <<"json: syntax error">>

RECURSIVE Unmarshal(_, _, _, _)
RECURSIVE UnmarshalFields(_, _, _, _, _, _)
RECURSIVE UnmarshalElems(_, _, _, _, _, _)
RECURSIVE UnmarshalFieldNext(_, _, _, _, _)
RECURSIVE UnmarshalElemNext(_, _, _, _, _)

\* the first error of a decode is the one it returns; decoding goes on after it
FirstError(err, r) == [h |-> r.h, err |-> IF err # <<>> THEN err ELSE r.err]

\* the members of the object j that name exported fields i.. of the struct at l
UnmarshalFields(T, j, l, h, i, err) ==
    IF i > NumField(T) THEN [h |-> h, err |-> err]
    ELSE IF ~Fields(T)[i].exported \/ Fields(T)[i].name \notin DOMAIN j.m
    THEN UnmarshalFields(T, j, l, h, i + 1, err)
    ELSE UnmarshalFieldNext(T, j, l, i,
            FirstError(err, Unmarshal(Fields(T)[i].type, j.m[Fields(T)[i].name],
                                      Sub(l, i), h)))

UnmarshalFieldNext(T, j, l, i, r) == UnmarshalFields(T, j, l, r.h, i + 1, r.err)

\* the slice at l made one element longer: a new backing array with a zero element
Grown(T, l, h) ==
    LET s == Read(h, l)
        old == IF s.n = 0 THEN <<>> ELSE SubSeq(h[s.a].v, 1, s.n)
    IN Write(Alloc(h, T, Append(old, Zero(Elem(T)))), l, [a |-> Len(h) + 1, n |-> s.n + 1])

\* the slice at l once the array has been decoded: cut to the array's length, and an
\* empty slice, not nil, for an empty array
Truncated(l, n, h) ==
    IF n = 0 /\ Read(h, l).a = NIL THEN Write(h, l, [a |-> ZeroBase, n |-> 0])
    ELSE IF n < Read(h, l).n THEN Write(h, l, [a |-> Read(h, l).a, n |-> n])
    ELSE h

\* the elements i.. of the array j into the slice at l: an element the slice has is
\* decoded in place, the slice is grown for the others
UnmarshalElems(T, j, l, h, i, err) ==
    IF i > Len(j.e) THEN [h |-> Truncated(l, Len(j.e), h), err |-> err]
    ELSE IF i > Read(h, l).n THEN UnmarshalElems(T, j, l, Grown(T, l, h), i, err)
    ELSE UnmarshalElemNext(T, j, l, i,
            FirstError(err, Unmarshal(Elem(T), j.e[i], Index(h, l, i), h)))

UnmarshalElemNext(T, j, l, i, r) == UnmarshalElems(T, j, l, r.h, i + 1, r.err)

\* json.Unmarshal of the value j into the value of type T at l
Unmarshal(T, j, l, h) ==
    IF j.k = "null"
    THEN IF Kind(T) \in {"ptr", "slice", "map", "interface"} THEN Ok(Write(h, l, Zero(T)))
         ELSE Ok(h)
    ELSE CASE Kind(T) = "struct" ->
                IF j.k = "obj" THEN UnmarshalFields(T, j, l, h, 1, <<>>)
                ELSE Fail(h, DecodeError)
           [] Kind(T) = "ptr" ->
                IF Read(h, l) = NIL
                THEN Unmarshal(Elem(T), j, Loc(Len(h) + 1),
                               Write(Alloc(h, Elem(T), Zero(Elem(T))), l, Len(h) + 1))
                ELSE Unmarshal(Elem(T), j, Loc(Read(h, l)), h)
           [] Kind(T) = "slice" ->
                IF j.k = "arr" THEN UnmarshalElems(T, j, l, h, 1, <<>>)
                ELSE Fail(h, DecodeError)
           [] Kind(T) = "basic" ->
                IF j.k = "str" THEN Ok(Write(h, l, j.v)) ELSE Fail(h, DecodeError)
           [] OTHER -> Fail(h, DecodeError)

\* echo's Context.Bind(i) on a request with a JSON body: the body is read to its end and
\* decoded into what i points to
EchoBind(body, i, h) ==
    IF body.k \in {"empty", "malformed"} THEN Fail(h, SyntaxError)
    ELSE Unmarshal(i.t, body, Loc(i.a), h)

\* c.Bind(i): a rebindableContext sets the body from its copy first
ContextBind(c, i, h) == EchoBind(IF c.rebindable THEN c.saved ELSE c.body, i, h)

\* the context once c.Bind has read the body
BodyRead(c) == [c EXCEPT !.body = EmptyBody]

\* Bind decoding into dst itself
Bind_IntoDst(p, tag, c, dst, h) == ContextBind(c, dst, h)

\* return protect.Copy(tag, clone, dst), unless c.Bind(clone) has failed
BindDecoded(p, tag, clone, dst, r) ==
    IF r.err # <<>> THEN r ELSE Copy(p, tag, clone, dst, r.h)

\* c.Bind(clone) on what protect.Clone(dst) has returned
BindClone(p, tag, c, dst, r) == BindDecoded(p, tag, r.v, dst, ContextBind(c, r.v, r.h))

\* protectecho.Bind(tag, c, dst): the heap it leaves and the error it returns
Bind(p, tag, c, dst, h) == BindClone(p, tag, c, dst, Clone(p, dst, h))

\* the arrays BindSlice may take from a body: the body itself, or a member of the
\* object, whichever the iteration over the map meets first
JsonArrays(body) ==
    CASE body.k = "arr" -> {body}
      [] body.k = "obj" -> {body.m[key] : key \in {x \in DOMAIN body.m : body.m[x].k = "arr"}}
      [] OTHER -> {}

\* jsonArray == nil
NoArray == [k |-> "nil", e |-> <<>>]

RECURSIVE BindItems(_, _, _, _, _)
RECURSIVE BindItemSet(_, _, _, _, _)
\* the items i.. of jsonArray into the elements of the slice whose array is at sa: an
\* object is unmarshalled into a new element, any other item leaves the element zero
BindItems(T, jsonArray, sa, h, i) ==
    IF i > Len(jsonArray.e) THEN Ok(h)
    ELSE IF jsonArray.e[i].k # "obj" THEN BindItems(T, jsonArray, sa, h, i + 1)
    ELSE BindItemSet(T, jsonArray, sa, i,
                     Unmarshal(Elem(T), jsonArray.e[i], Loc(Len(h) + 1),
                               Alloc(h, Elem(T), Zero(Elem(T)))))

\* sliceVal.Index(i).Set(elemPtr.Elem()), unless the item has failed
BindItemSet(T, jsonArray, sa, i, r) ==
    IF r.err # <<>> THEN r
    ELSE BindItems(T, jsonArray, sa,
                   Write(r.h, Sub(Loc(sa), i), r.h[Len(r.h)].v), i + 1)

\* what BindSlice returns when it has not reached CopySlice
BindSliceFail(p, h, e) == [h |-> h, err |-> e, sliceOptions |-> p.sliceOptions]

\* reflect.ValueOf(cloneDst).Elem().Set(sliceVal), then protect.CopySlice
BindSliceCopy(p, tag, T, cloneDst, sliceVal, dst, option, r) ==
    IF r.err # <<>> THEN BindSliceFail(p, r.h, r.err)
    ELSE CopySlice(p, tag, PtrArg(T, cloneDst), dst, option,
                   Write(r.h, Loc(cloneDst), sliceVal))

\* the elements of the new slice, made by reflect.MakeSlice, filled from jsonArray
BindSliceItems(p, tag, T, cloneDst, jsonArray, dst, option, m) ==
    BindSliceCopy(p, tag, T, cloneDst, m.v, dst, option,
                  BindItems(T, jsonArray, m.v.a, m.h, 1))

\* protectecho.BindSlice(tag, c, dst, option), jsonArray being the array it has found in
\* the body: the heap it leaves, the error it returns and the registry
BindSlice(p, tag, c, dst, option, jsonArray, h) ==
    IF dst.k # "ptr" \/ dst.a = NIL \/ Kind(dst.t) # "slice"
    THEN BindSliceFail(p, h, <<"dst must be a pointer to a slice">>)
    ELSE IF c.body.k \in {"empty", "malformed"} THEN BindSliceFail(p, h, SyntaxError)
    ELSE IF jsonArray = NoArray
    THEN BindSliceFail(p, h, <<"no array found in the JSON data">>)
    ELSE BindSliceItems(p, tag, dst.t, Len(h) + 1, jsonArray, dst, option,
                        MakeSlice(Alloc(h, dst.t, NilSlice), dst.t, Len(jsonArray.e)))

\* ReBindable(c): the wrapper keeps a copy of what is left of the body
ReBindable(c) ==
    IF c.rebindable THEN c ELSE [body |-> c.body, saved |-> c.body, rebindable |-> TRUE]

\* the request bodies of the handlers, for each type of dst
Item(i) == JObj([key \in {"ID", "Code", "Name"} |-> JStr(Str("p-" \o key, i))])

Payloads(T) ==
    CASE T = "SimpleStruct" ->
            {Item(1), Item(2), JObj([key \in {"Name", "extra"} |-> JStr("p-Name1")]),
             JObj([key \in {"ID", "Code", "Name"} |->
                      IF key = "Code" THEN JNum ELSE JStr(Str("p-" \o key, 1))]),
             Malformed}
      [] T = "NestedStruct" ->
            {JObj([key \in {"ID", "Parent", "Child"} |->
                      IF key = "ID" THEN JStr("p-ID1") ELSE Item(1)]),
             JObj([key \in {"Parent"} |-> JNull]),
             Malformed}
      [] T = "[]SimpleStruct" ->
            {JArr([i \in 1..n |-> Item(i)]) : n \in 0..MaxLen} \cup
            {JArr(<<JStr("p-1")>>), JArr(<<JObj([key \in {"ID"} |-> JNum])>>),
             JObj([key \in {"items", "more"} |->
                      IF key = "items" THEN JArr(<<Item(1)>>) ELSE JArr(<<Item(2)>>)]),
             Item(1), Malformed}
      [] OTHER ->
            {JObj([key \in {"ID", "Items"} |->
                      IF key = "ID" THEN JStr("p-ID1") ELSE JArr(<<Item(1)>>)]),
             Malformed}

\* the types of the variable dst of a handler
BindTypes == {"SimpleStruct", "NestedStruct", "[]SimpleStruct", "SliceWithOptions"}

\* a handler: its variable dst, the request it has received, the default engine
InitBind ==
    /\ rootT \in BindTypes
    /\ \E d \in Lits(rootT, "d") :
          LET i == InitHeap(rootT, ZeroLit(rootT), d) IN
          /\ heap = i.h
          /\ srcA = i.src
          /\ dstA = i.dst
          /\ othA = Len(i.h)
    /\ req \in {[body |-> b, saved |-> NoBody, rebindable |-> FALSE] : b \in Payloads(rootT)}
    /\ sliceOptions = EmptyMap
    /\ mapOptions = EmptyMap
    /\ primitiveStructs = {"Time"}
    /\ ret = NilArg
    /\ pre = [heap |-> heap, sliceOptions |-> sliceOptions, mapOptions |-> mapOptions,
              req |-> req]
    /\ last = NoCall
    /\ calls = 0
    /\ caller = [limit |-> MaxCalls, shapes |-> "bind"]
    /\ procs = NoProcs
    /\ tagValue = <<>>
    /\ tagArg = <<>>
    /\ protected = FALSE

\* c = ReBindable(c)
DoReBindable ==
    /\ ~req.rebindable
    /\ req' = ReBindable(req)
    /\ UNCHANGED <<heap, sliceOptions, mapOptions, primitiveStructs, rootT, srcA, dstA,
                   othA, ret, pre, last, calls, caller, tagValue, tagArg, protected, procs>>

\* the handler's state once Bind has returned r
BindDone(tag, r) ==
    /\ heap' = r.h
    /\ req' = BodyRead(req)
    /\ pre' = Snapshot(heap)
    /\ last' = [op |-> "Bind", tag |-> tag, option |-> "", src |-> "", dst |-> "ptr",
                err |-> r.err, prev |-> Earlier(last)]

\* err := protectecho.Bind(tag, c, &dst)
DoBind(tag) ==
    /\ calls < caller.limit
    /\ BindDone(tag, Bind(Protector, tag, req, PtrArg(rootT, dstA), heap))
    /\ calls' = calls + 1
    /\ UNCHANGED <<sliceOptions, mapOptions, primitiveStructs, rootT, srcA, dstA, othA,
                   ret, caller, tagValue, tagArg, protected, procs>>

\* the handler's state once BindSlice has returned r: the body is as it was, read to its
\* end and put back
BindSliceDone(tag, option, r) ==
    /\ heap' = r.h
    /\ sliceOptions' = r.sliceOptions
    /\ pre' = Snapshot(heap)
    /\ last' = [op |-> "BindSlice", tag |-> tag, option |-> option, src |-> "",
                dst |-> "ptr", err |-> r.err, prev |-> Earlier(last)]

\* err := protectecho.BindSlice(tag, c, &dst, option)
DoBindSlice(tag, option) ==
    /\ calls < caller.limit
    /\ \E jsonArray \in IF JsonArrays(req.body) = {} THEN {NoArray} ELSE JsonArrays(req.body) :
          BindSliceDone(tag, option,
                        BindSlice(Protector, tag, req, PtrArg(rootT, dstA), option,
                                  jsonArray, heap))
    /\ calls' = calls + 1
    /\ UNCHANGED <<mapOptions, primitiveStructs, rootT, srcA, dstA, othA, ret, caller,
                   tagValue, tagArg, protected, req, procs>>

NextBind ==
    \/ DoReBindable
    \/ \E tag \in Tags : DoBind(tag)
    \/ \E tag \in Tags, option \in SliceOptionNames : DoBindSlice(tag, option)

SpecBind == InitBind /\ [][NextBind]_vars

----------------------------------------------------------------------------
(* What the claims are stated in: the deep values of the caller's          *)
(* variables before and after the last call, and exclusion as the          *)
(* specification words it.                                                 *)

\* entry i..j of an exclusion-tag value (the text between two commas, or between a comma
\* and an end), with the white space around it removed, is tag
EntryIs(tv, i, j, tag) ==
    /\ i = 1 \/ tv[i - 1] = ","
    /\ j = Len(tv) \/ tv[j + 1] = ","
    /\ \A k \in i..j : tv[k] # ","
    /\ \E a \in i..(j + 1), b \in (i - 1)..j :
          /\ a <= b + 1
          /\ \A k \in i..(a - 1) : IsSpace(tv[k])
          /\ \A k \in (b + 1)..j : IsSpace(tv[k])
          /\ a <= b => ~IsSpace(tv[a]) /\ ~IsSpace(tv[b])
          /\ SubSeq(tv, a, b) = tag

\* a field whose exclusion-tag value is tv is excluded for the operation tag
TagExcludes(tv, tag) ==
    /\ tag # <<>>
    /\ \E i \in 1..(Len(tv) + 1), j \in 0..Len(tv) : i <= j + 1 /\ EntryIs(tv, i, j, tag)

\* field i of the struct type T is excluded for tag
Excluded(T, i, tag) == TagExcludes(Fields(T)[i].protectfor, tag)

\* the variables the last call was given as source and as destination
SrcRoot == IF last.src = "ptr2" THEN dstA ELSE srcA
DstRoot == IF last.dst = "ptr2" THEN srcA ELSE dstA

SrcBefore == TreeAt(rootT, SrcRoot, pre.heap)
SrcAfter == TreeAt(rootT, SrcRoot, heap)
DstBefore == TreeAt(rootT, DstRoot, pre.heap)
DstAfter == TreeAt(rootT, DstRoot, heap)

\* the last call was op, given pointers to the two variables, and returned no error
Succeeded(op) ==
    /\ last.op = op
    /\ last.src \in {"ptr", "ptr2"}
    /\ last.dst \in {"ptr", "ptr2"}
    /\ last.err = <<>>

RECURSIVE Merged(_, _, _, _)
\* a value of structs, pointers and scalars after a tag-aware copy of s onto d: excluded
\* fields from d, the others from s, field by field down nested structs and pointer
\* targets (a nil destination pointer counting as a pointer to a zero value)
Merged(T, tag, s, d) ==
    CASE Kind(T) = "struct" /\ T \in primitiveStructs -> s
      [] Kind(T) = "struct" /\ T \notin primitiveStructs ->
            [i \in 1..NumField(T) |->
                IF ~Fields(T)[i].exported \/ Excluded(T, i, tag) THEN d[i]
                ELSE Merged(Fields(T)[i].type, tag, s[i], d[i])]
      [] Kind(T) = "ptr" ->
            IF s = <<>> THEN <<>>
            ELSE <<Merged(Elem(T), tag, s[1], IF d = <<>> THEN ZeroLit(Elem(T)) ELSE d[1])>>
      [] OTHER -> s

RECURSIVE KeepsExcluded(_, _, _, _, _)
\* every excluded field found at the same place in before and after holds the same
\* value in both.  Places are reached through struct fields and pointers and, when
\* everywhere is TRUE, also through slice elements, map values and interface values
KeepsExcluded(T, tag, before, after, everywhere) ==
    CASE Kind(T) = "struct" /\ T \notin primitiveStructs ->
            \A i \in 1..NumField(T) :
                IF Excluded(T, i, tag) THEN after[i] = before[i]
                ELSE KeepsExcluded(Fields(T)[i].type, tag, before[i], after[i], everywhere)
      [] Kind(T) = "ptr" ->
            before # <<>> /\ after # <<>> =>
                KeepsExcluded(Elem(T), tag, before[1], after[1], everywhere)
      [] Kind(T) = "slice" ->
            everywhere =>
                \A i \in 1..Min(Len(before.e), Len(after.e)) :
                    KeepsExcluded(Elem(T), tag, before.e[i], after.e[i], everywhere)
      [] Kind(T) = "map" ->
            everywhere =>
                \A k \in DOMAIN before.m \cap DOMAIN after.m :
                    KeepsExcluded(Elem(T), tag, before.m[k], after.m[k], everywhere)
      [] Kind(T) = "interface" ->
            everywhere /\ before.t # "" /\ after.t = before.t =>
                KeepsExcluded(before.t, tag, before.v, after.v, everywhere)
      [] OTHER -> TRUE

RECURSIVE EqualsSource(_, _, _, _, _)
\* every field of after reachable without crossing an excluded field equals the field
\* of src at the same place.  With everywhere FALSE this is said of the exported fields
\* reached through struct fields, pointers and interface values, and of a slice or map
\* only that it is nil when the source's is
EqualsSource(T, tag, src, after, everywhere) ==
    CASE Kind(T) = "struct" /\ T \in primitiveStructs -> after = src
      [] Kind(T) = "struct" /\ T \notin primitiveStructs ->
            \A i \in 1..NumField(T) :
                IF Excluded(T, i, tag) THEN TRUE
                ELSE IF ~Fields(T)[i].exported THEN everywhere => after[i] = src[i]
                ELSE EqualsSource(Fields(T)[i].type, tag, src[i], after[i], everywhere)
      [] Kind(T) = "ptr" ->
            /\ (src = <<>>) = (after = <<>>)
            /\ src # <<>> => EqualsSource(Elem(T), tag, src[1], after[1], everywhere)
      [] Kind(T) = "slice" ->
            /\ src.nil => after.nil
            /\ everywhere =>
                  /\ after.nil = src.nil
                  /\ Len(after.e) = Len(src.e)
                  /\ \A i \in 1..Min(Len(src.e), Len(after.e)) :
                        EqualsSource(Elem(T), tag, src.e[i], after.e[i], everywhere)
      [] Kind(T) = "map" ->
            /\ src.nil => after.nil
            /\ everywhere =>
                  /\ after.nil = src.nil
                  /\ DOMAIN after.m = DOMAIN src.m
                  /\ \A k \in DOMAIN src.m \cap DOMAIN after.m :
                        EqualsSource(Elem(T), tag, src.m[k], after.m[k], everywhere)
      [] Kind(T) = "interface" ->
            /\ after.t = src.t
            /\ src.t # "" => EqualsSource(src.t, tag, src.v, after.v, everywhere)
      [] OTHER -> after = src

----------------------------------------------------------------------------
----------------------------------------------------------------------------
\* the types built only from structs, pointers to structs and scalars
PlainTypes == {"SimpleStruct", "NestedStruct", "TimeStruct", "Account"}

(* C2: for values built only from structs, pointers to structs and         *)
(* scalars, a successful Copy(tag, src, dst) leaves each exported field    *)
(* unchanged when tag is non-empty and equals one entry of the field's     *)
(* exclusion list, and makes it equal to src's otherwise, at the top       *)
(* level and, with the same tag, inside nested structs and pointer         *)
(* targets.  With a zero dst of type SimpleStruct: tag create copies Code  *)
(* and Name only, tag update copies Name only, the empty tag copies all    *)
(* three.                                                                  *)
C2_FieldByField ==
    Succeeded("Copy") /\ rootT \in PlainTypes =>
        /\ DstAfter = Merged(rootT, last.tag, SrcBefore, DstBefore)
        /\ rootT = "SimpleStruct" /\ DstBefore = ZeroLit(rootT) =>
              /\ last.tag = Create => DstAfter = <<"", SrcBefore[2], SrcBefore[3]>>
              /\ last.tag = Update => DstAfter = <<"", "", SrcBefore[3]>>
              /\ last.tag = NoTag => DstAfter = SrcBefore

\* Copy with tag create into a zero SimpleStruct: Code and Name copied, ID left empty
C2_Witness ==
    /\ Succeeded("Copy")
    /\ rootT = "SimpleStruct"
    /\ last.tag = Create
    /\ DstBefore = <<"", "", "">>
    /\ SrcBefore = <<"s-id1", "s-code1", "s-name1">>
    /\ DstAfter = <<"", "s-code1", "s-name1">>

----------------------------------------------------------------------------
RECURSIVE ExportedEqual(_, _, _)
\* the clone c equals x in every exported field at every level, through pointers,
\* slices, maps and interface values; primitive structs are equal as a whole and the
\* unexported fields of other structs are zero in the clone
ExportedEqual(T, x, c) ==
    CASE Kind(T) = "struct" /\ T \in primitiveStructs -> c = x
      [] Kind(T) = "struct" /\ T \notin primitiveStructs ->
            \A i \in 1..NumField(T) :
                IF Fields(T)[i].exported THEN ExportedEqual(Fields(T)[i].type, x[i], c[i])
                ELSE c[i] = ZeroLit(Fields(T)[i].type)
      [] Kind(T) = "ptr" ->
            /\ (c = <<>>) = (x = <<>>)
            /\ x # <<>> => ExportedEqual(Elem(T), x[1], c[1])
      [] Kind(T) = "slice" ->
            /\ c.nil = x.nil
            /\ Len(c.e) = Len(x.e)
            /\ \A i \in 1..Min(Len(c.e), Len(x.e)) : ExportedEqual(Elem(T), x.e[i], c.e[i])
      [] Kind(T) = "map" ->
            /\ c.nil = x.nil
            /\ DOMAIN c.m = DOMAIN x.m
            /\ \A k \in DOMAIN c.m \cap DOMAIN x.m : ExportedEqual(Elem(T), x.m[k], c.m[k])
      [] Kind(T) = "interface" ->
            /\ c.t = x.t
            /\ x.t # "" => ExportedEqual(x.t, x.v, c.v)
      [] OTHER -> c = x

\* the side a caller of Clone did not change
OtherSide(side) == IF side = "x" THEN "clone" ELSE "x"

\* a change made to one of x and the clone is not visible in the other
Independent ==
    last.op = "Mutate" =>
        TreeAt(rootT, SideRoot(OtherSide(last.src)), heap)
            = TreeAt(rootT, SideRoot(OtherSide(last.src)), pre.heap)

----------------------------------------------------------------------------
\* the pointer targets, backing arrays and maps the last call's source and destination
\* refer to once the call has returned
SrcCells == ReachAt(rootT, SrcRoot, heap)
DstCells == ReachAt(rootT, DstRoot, heap)

(* C4, as the specification states it: after Copy or CopySlice returns,    *)
(* under every sequence policy and every map policy, no pointer target,    *)
(* slice backing store or map reachable from the destination is also       *)
(* reachable from the source.                                              *)
C4_AsStated ==
    Succeeded("Copy") \/ Succeeded("CopySlice") => DstCells \cap SrcCells = {}

(* C4 holds under the policies other than the map policies match and       *)
(* patch: there, after Copy or CopySlice returns, the destination shares   *)
(* no pointer target, backing store or map with the source.                *)
C4_FreshUnlessMapMerge ==
    /\ Succeeded("Copy") \/ Succeeded("CopySlice")
    /\ \A k \in DOMAIN pre.mapOptions : pre.mapOptions[k] \notin {"match", "patch"}
    => DstCells \cap SrcCells = {}

----------------------------------------------------------------------------
\* the cells the source of the last call was made of when the call started
SrcCellsBefore == {SrcRoot} \cup ReachAt(rootT, SrcRoot, pre.heap)

(* C5: over any sequence of Copy, CopySlice and Clone calls on two         *)
(* variables that shared no object when the first call started, no call    *)
(* writes to an object of its source graph: the variable passed as source  *)
(* and every pointer target, backing array and map it refers to hold after *)
(* the call what they held before, so the source's value is the same,      *)
(* whether the call succeeded or returned an error.                        *)
C5_SourceUntouched ==
    last.op \in {"Copy", "CopySlice", "Clone"} /\ last.src \in {"ptr", "ptr2"} =>
        /\ \A a \in SrcCellsBefore : heap[a] = pre.heap[a]
        /\ SrcAfter = SrcBefore

\* the second call of a sequence copies dst back into src while the two maps' values
\* share a pointer target, left shared by the first call; the call changes src
C5_Witness ==
    /\ calls = 2
    /\ last.op = "Copy"
    /\ last.src = "ptr2"
    /\ last.err = <<>>
    /\ ReachAt(rootT, srcA, pre.heap) \cap ReachAt(rootT, dstA, pre.heap) # {}
    /\ TreeAt(rootT, srcA, heap) # TreeAt(rootT, srcA, pre.heap)

----------------------------------------------------------------------------
\* the last call was given arguments the specification calls invalid: src nil or a nil
\* pointer; dst nil, not a pointer, a nil pointer or a pointer to another type than
\* src's; for CopySlice, values that are not slices
BadArguments ==
    \/ last.src \in {"nil", "nilptr"}
    \/ last.dst \in {"nil", "val", "nilptr", "other"}
    \/ last.op = "CopySlice" /\ Kind(rootT) # "slice"

(* C6: Copy and CopySlice return an error and leave the destination        *)
(* completely unchanged when src is nil, src is a nil pointer, dst is nil, *)
(* dst is not a pointer, dst is a nil pointer, or the type of src (after   *)
(* one pointer level) differs from the type dst points to; CopySlice also  *)
(* when the two values are not slices.  No traversal step runs: nothing is *)
(* allocated or written, and no policy is registered.                      *)
C6_BadArgumentsRejected ==
    last.op \in {"Copy", "CopySlice"} /\ BadArguments =>
        /\ last.err # <<>>
        /\ heap = pre.heap
        /\ sliceOptions = pre.sliceOptions
        /\ mapOptions = pre.mapOptions

\* CopySlice was given a slice by value as dst: it returned the error of the pointer
\* check and the caller's slice is as before
C6_Witness ==
    /\ last.op = "CopySlice"
    /\ rootT = "[]SimpleStruct"
    /\ last.src = "ptr"
    /\ last.dst = "val"
    /\ last.err = <<"dst must be a pointer">>
    /\ TreeAt(rootT, srcA, heap).e # <<>>
    /\ heap = pre.heap

----------------------------------------------------------------------------
(* C7: isProtected(tagValue, t) is true exactly when t is non-empty and    *)
(* equal to one of the entries obtained by splitting the exclusion-tag     *)
(* value at commas and trimming the white space around each entry; the     *)
(* empty operation tag excludes no field, and an empty exclusion-tag value *)
(* excludes for no tag.                                                    *)
C7_TagMatching ==
    calls = 1 /\ caller.limit = 0 =>
        /\ protected = TagExcludes(tagValue, tagArg)
        /\ tagArg = <<>> => ~protected
        /\ tagValue = <<>> => ~protected

\* isProtected("c, u", "u") has returned true: the second entry, trimmed, is the tag
C7_Witness ==
    /\ calls = 1
    /\ caller.limit = 0
    /\ tagValue = <<"c", ",", " ", "u">>
    /\ tagArg = <<"u">>
    /\ protected

----------------------------------------------------------------------------
(* The slices a call copies under a policy: the caller's variables         *)
(* themselves when they are slices, the field Items when they are          *)
(* SliceWithOptions or AnnotatedItems.  A site is the path from the        *)
(* variable to the slice.                                                  *)

SliceSites ==
    IF Kind(rootT) = "slice" THEN {<<>>}
    ELSE IF rootT \in {"SliceWithOptions", "AnnotatedItems"} THEN {<<2>>}
    ELSE {}

SiteType(site) == IF site = <<>> THEN rootT ELSE Fields(rootT)[site[1]].type

\* the slice header at a site of a variable, and its deep value
SliceAt(site, root, h) == GetPath(h[root].v, site)
SliceTree(site, root, h) == Tree(SiteType(site), SliceAt(site, root, h), h)

SrcSlice(site) == SliceTree(site, SrcRoot, pre.heap)
DstSliceBefore(site) == SliceTree(site, DstRoot, pre.heap)
DstSliceAfter(site) == SliceTree(site, DstRoot, heap)

\* the policy in force for the destination slice of the last call: the option given to
\* CopySlice, else the override registered for the slice, else overwrite
PolicyInForce(site) ==
    IF last.op = "CopySlice" THEN last.option
    ELSE IF SliceAt(site, DstRoot, pre.heap).a \in DOMAIN pre.sliceOptions
    THEN pre.sliceOptions[SliceAt(site, DstRoot, pre.heap).a]
    ELSE "overwrite"

\* the last call copied a non-nil source slice at the site under the policy
CopiedUnder(site, policy) ==
    /\ Succeeded("Copy") \/ Succeeded("CopySlice")
    /\ ~SrcSlice(site).nil
    /\ PolicyInForce(site) = policy

(* C8: under the sequence policy overwrite (the default), for a non-nil    *)
(* source, the destination length after the call equals the source length  *)
(* for every pair of prior lengths, and every destination element is an    *)
(* unprotected clone of the source element at the same index: it equals    *)
(* the source element in all fields, those excluded by the tag included,   *)
(* at every nesting level, and nothing of the prior destination survives:  *)
(* the backing array and everything the elements refer to are new.         *)
C8_OverwritePolicy ==
    \A site \in SliceSites :
        CopiedUnder(site, "overwrite") =>
            /\ Len(DstSliceAfter(site).e) = Len(SrcSlice(site).e)
            /\ \A i \in 1..Len(SrcSlice(site).e) :
                  /\ DstSliceAfter(site).e[i] =
                        Merged(Elem(SiteType(site)), NoTag,
                               SrcSlice(site).e[i], ZeroLit(Elem(SiteType(site))))
                  /\ \A f \in 1..NumField(Elem(SiteType(site))) :
                        Excluded(Elem(SiteType(site)), f, last.tag) =>
                            DstSliceAfter(site).e[i][f] = SrcSlice(site).e[i][f]
            /\ \A a \in Reach(SiteType(site), SliceAt(site, DstRoot, heap), heap) :
                  a > Len(pre.heap)

\* Copy with tag update and no override into a longer slice of NestedStructs: dst has
\* the source's length and its first element's excluded ID is the source's
C8_Witness ==
    /\ rootT = "[]NestedStruct"
    /\ CopiedUnder(<<>>, "overwrite")
    /\ last.op = "Copy"
    /\ last.tag = Update
    /\ Len(SrcSlice(<<>>).e) = 1
    /\ Len(DstSliceBefore(<<>>).e) = 2
    /\ Len(DstSliceAfter(<<>>).e) = 1
    /\ DstSliceAfter(<<>>).e[1][1] = SrcSlice(<<>>).e[1][1]
    /\ DstSliceAfter(<<>>).e[1][1] # DstSliceBefore(<<>>).e[1][1]

----------------------------------------------------------------------------
(* C9: under the sequence policy match, for a non-nil source, the          *)
(* destination length after the call equals the source length for every    *)
(* pair of prior lengths, and every element at an index below the original *)
(* destination length is the tag-aware copy of the source element into the *)
(* pre-existing destination element: fields excluded by the tag, at every  *)
(* nesting level of the element, keep the pre-existing values and all      *)
(* other fields equal the source's.                                        *)
C9_MatchPolicy ==
    \A site \in SliceSites :
        CopiedUnder(site, "match") =>
            /\ Len(DstSliceAfter(site).e) = Len(SrcSlice(site).e)
            /\ \A i \in 1..Min(Len(DstSliceBefore(site).e), Len(SrcSlice(site).e)) :
                  DstSliceAfter(site).e[i] =
                      Merged(Elem(SiteType(site)), last.tag,
                             SrcSlice(site).e[i], DstSliceBefore(site).e[i])

\* CopySlice with match and tag update from two NestedStructs into one: dst has two
\* elements, and in the first the excluded ID and the parent's excluded Code are the
\* destination's while the parent's Name is the source's
C9_Witness ==
    /\ rootT = "[]NestedStruct"
    /\ CopiedUnder(<<>>, "match")
    /\ last.op = "CopySlice"
    /\ last.tag = Update
    /\ Len(SrcSlice(<<>>).e) = 2
    /\ Len(DstSliceBefore(<<>>).e) = 1
    /\ Len(DstSliceAfter(<<>>).e) = 2
    /\ SrcSlice(<<>>).e[1][2] # <<>>
    /\ DstSliceBefore(<<>>).e[1][2] # <<>>
    /\ DstSliceAfter(<<>>).e[1][1] = DstSliceBefore(<<>>).e[1][1]
    /\ DstSliceAfter(<<>>).e[1][2][1][2] = DstSliceBefore(<<>>).e[1][2][1][2]
    /\ DstSliceAfter(<<>>).e[1][2][1][3] = SrcSlice(<<>>).e[1][2][1][3]

----------------------------------------------------------------------------
\* the elements a match copy creates: those of the source at an index at or beyond
\* the original destination length
NewIndices(site) == (Len(DstSliceBefore(site).e) + 1)..Len(SrcSlice(site).e)

\* element i of the destination is the tag-aware copy of the source's into a zero value
NewElementMerged(site, i) ==
    /\ i <= Len(DstSliceAfter(site).e)
    /\ DstSliceAfter(site).e[i] =
          Merged(Elem(SiteType(site)), last.tag,
                 SrcSlice(site).e[i], ZeroLit(Elem(SiteType(site))))

(* C10: under the sequence policy match with a source longer than the      *)
(* destination, every element at an index at or beyond the original        *)
(* destination length is the tag-aware copy of the source element into a   *)
(* zero-valued element: the fields excluded by the tag, at the element's   *)
(* top level and inside its nested structs and pointer targets, are zero   *)
(* and all other fields equal the source's.                                *)
C10_AsStated ==
    \A site \in SliceSites :
        CopiedUnder(site, "match") => \A i \in NewIndices(site) : NewElementMerged(site, i)

\* what the code does about C10: the statement holds of every element type that is no
\* registered primitive struct, and a new element of a primitive struct type is left zero
C10_NewElementsDecomposed ==
    \A site \in SliceSites :
        CopiedUnder(site, "match") =>
            \A i \in NewIndices(site) :
                IF Elem(SiteType(site)) \in primitiveStructs
                THEN /\ i <= Len(DstSliceAfter(site).e)
                     /\ DstSliceAfter(site).e[i] = ZeroLit(Elem(SiteType(site)))
                ELSE NewElementMerged(site, i)

\* CopySlice with match from one time.Time into an empty slice: the new element is the
\* zero time, not the source's
C10_ZeroTime ==
    /\ rootT = "[]Time"
    /\ CopiedUnder(<<>>, "match")
    /\ Len(SrcSlice(<<>>).e) = 1
    /\ Len(DstSliceBefore(<<>>).e) = 0
    /\ DstSliceAfter(<<>>).e = <<ZeroLit("Time")>>
    /\ SrcSlice(<<>>).e[1] # ZeroLit("Time")

----------------------------------------------------------------------------
(* C11: under the sequence policy longer, for a non-nil source, the        *)
(* destination length after the call equals max(old destination length,    *)
(* source length); the elements at indices below min(old destination       *)
(* length, source length) are tag-aware copies into the existing           *)
(* destination elements, excluded fields keeping the destination's prior   *)
(* values; and when the destination was longer, its elements at indices at *)
(* or beyond the source length are unchanged.                              *)
C11_LongerPolicy ==
    \A site \in SliceSites :
        CopiedUnder(site, "longer") =>
            /\ Len(DstSliceAfter(site).e) =
                  Max(Len(DstSliceBefore(site).e), Len(SrcSlice(site).e))
            /\ \A i \in 1..Min(Len(DstSliceBefore(site).e), Len(SrcSlice(site).e)) :
                  DstSliceAfter(site).e[i] =
                      Merged(Elem(SiteType(site)), last.tag,
                             SrcSlice(site).e[i], DstSliceBefore(site).e[i])
            /\ \A i \in (Len(SrcSlice(site).e) + 1)..Len(DstSliceBefore(site).e) :
                  DstSliceAfter(site).e[i] = DstSliceBefore(site).e[i]

\* CopySlice with longer and tag update from one NestedStruct into two: dst keeps two
\* elements, the second as it was, the first with its own ID and the source's Child.Name
C11_Witness ==
    /\ rootT = "[]NestedStruct"
    /\ CopiedUnder(<<>>, "longer")
    /\ last.op = "CopySlice"
    /\ last.tag = Update
    /\ Len(SrcSlice(<<>>).e) = 1
    /\ Len(DstSliceBefore(<<>>).e) = 2
    /\ Len(DstSliceAfter(<<>>).e) = 2
    /\ DstSliceAfter(<<>>).e[2] = DstSliceBefore(<<>>).e[2]
    /\ DstSliceAfter(<<>>).e[1][1] = DstSliceBefore(<<>>).e[1][1]
    /\ DstSliceAfter(<<>>).e[1][3][3] = SrcSlice(<<>>).e[1][3][3]
    /\ DstSliceAfter(<<>>).e[1] # DstSliceBefore(<<>>).e[1]

----------------------------------------------------------------------------
(* C12: under the sequence policy longer with a source longer than the     *)
(* destination, each element at an index from the old destination length   *)
(* up to the source length is appended as an unprotected clone of the      *)
(* source element at that index: all of its fields, those excluded by the  *)
(* tag included, equal the source's.                                       *)
C12_AsStated ==
    \A site \in SliceSites :
        CopiedUnder(site, "longer") =>
            \A i \in NewIndices(site) :
                /\ i <= Len(DstSliceAfter(site).e)
                /\ DstSliceAfter(site).e[i] =
                      Merged(Elem(SiteType(site)), NoTag,
                             SrcSlice(site).e[i], ZeroLit(Elem(SiteType(site))))

\* what the code does about C12: the destination is extended to the source's length and
\* every appended element is left the zero value of the element type
C12_AppendedZero ==
    \A site \in SliceSites :
        CopiedUnder(site, "longer") =>
            \A i \in NewIndices(site) :
                /\ i <= Len(DstSliceAfter(site).e)
                /\ DstSliceAfter(site).e[i] = ZeroLit(Elem(SiteType(site)))

\* CopySlice with longer from two SimpleStructs into one: the appended second element is
\* the zero SimpleStruct, not the source's
C12_ZeroAppended ==
    /\ rootT = "[]SimpleStruct"
    /\ CopiedUnder(<<>>, "longer")
    /\ Len(SrcSlice(<<>>).e) = 2
    /\ Len(DstSliceBefore(<<>>).e) = 1
    /\ Len(DstSliceAfter(<<>>).e) = 2
    /\ DstSliceAfter(<<>>).e[2] = <<"", "", "">>
    /\ SrcSlice(<<>>).e[2] # <<"", "", "">>

----------------------------------------------------------------------------
(* C13: under the sequence policy shorter, for a non-nil source, the       *)
(* destination length after the call equals min(old destination length,    *)
(* source length): a destination longer than the source is truncated to    *)
(* the source length, the source elements beyond the destination length    *)
(* are ignored, and the elements kept are tag-aware copies into the        *)
(* existing destination elements.                                          *)
C13_AsStated ==
    \A site \in SliceSites :
        CopiedUnder(site, "shorter") =>
            /\ Len(DstSliceAfter(site).e) =
                  Min(Len(DstSliceBefore(site).e), Len(SrcSlice(site).e))
            /\ \A i \in 1..Len(DstSliceAfter(site).e) :
                  DstSliceAfter(site).e[i] =
                      Merged(Elem(SiteType(site)), last.tag,
                             SrcSlice(site).e[i], DstSliceBefore(site).e[i])

\* what the code does about C13: the destination keeps its length; its elements below
\* the source length are tag-aware copies, the others are as they were
C13_ShorterKeepsLength ==
    \A site \in SliceSites :
        CopiedUnder(site, "shorter") =>
            /\ Len(DstSliceAfter(site).e) = Len(DstSliceBefore(site).e)
            /\ \A i \in 1..Len(DstSliceBefore(site).e) :
                  DstSliceAfter(site).e[i] =
                      IF i <= Len(SrcSlice(site).e)
                      THEN Merged(Elem(SiteType(site)), last.tag,
                                  SrcSlice(site).e[i], DstSliceBefore(site).e[i])
                      ELSE DstSliceBefore(site).e[i]

\* CopySlice with shorter from one SimpleStruct into two: the destination still has two
\* elements, the second as it was
C13_NotTruncated ==
    /\ rootT = "[]SimpleStruct"
    /\ CopiedUnder(<<>>, "shorter")
    /\ Len(SrcSlice(<<>>).e) = 1
    /\ Len(DstSliceBefore(<<>>).e) = 2
    /\ Len(DstSliceAfter(<<>>).e) = 2
    /\ DstSliceAfter(<<>>).e[2] = DstSliceBefore(<<>>).e[2]

----------------------------------------------------------------------------
RECURSIVE NilFollows(_, _, _, _)
\* at every place found in both src and after without crossing a field excluded for tag
\* (through struct fields, pointers, slice elements, map values and interface values):
\* a pointer that is nil in src is nil in after, and so is a slice
NilFollows(T, tag, src, after) ==
    CASE Kind(T) = "struct" /\ T \notin primitiveStructs ->
            \A i \in 1..NumField(T) :
                Fields(T)[i].exported /\ ~Excluded(T, i, tag) =>
                    NilFollows(Fields(T)[i].type, tag, src[i], after[i])
      [] Kind(T) = "ptr" ->
            /\ src = <<>> => after = <<>>
            /\ src # <<>> /\ after # <<>> => NilFollows(Elem(T), tag, src[1], after[1])
      [] Kind(T) = "slice" ->
            /\ src.nil => after.nil
            /\ \A i \in 1..Min(Len(src.e), Len(after.e)) :
                  NilFollows(Elem(T), tag, src.e[i], after.e[i])
      [] Kind(T) = "map" ->
            \A k \in DOMAIN src.m \cap DOMAIN after.m :
                NilFollows(Elem(T), tag, src.m[k], after.m[k])
      [] Kind(T) = "interface" ->
            src.t # "" /\ after.t = src.t => NilFollows(src.t, tag, src.v, after.v)
      [] OTHER -> TRUE

(* C14: a nil source reference always erases the destination: when a       *)
(* source pointer field that is not excluded is nil, the destination        *)
(* pointer field is nil after the call even if it held a non-nil value      *)
(* before, and when the source slice is nil the destination slice is nil    *)
(* after Copy and CopySlice, whatever policy is in force and whatever the   *)
(* destination held.                                                        *)
C14_NilErases ==
    Succeeded("Copy") \/ Succeeded("CopySlice") =>
        /\ NilFollows(rootT, last.tag, SrcBefore, DstAfter)
        /\ \A site \in SliceSites : SrcSlice(site).nil => DstSliceAfter(site).nil

\* Copy from a NestedStruct whose Parent is nil into one whose Parent is set: dst's
\* Parent is nil afterwards
C14_Witness ==
    /\ Succeeded("Copy")
    /\ rootT = "NestedStruct"
    /\ SrcBefore[2] = <<>>
    /\ DstBefore[2] # <<>>
    /\ DstAfter[2] = <<>>

\* CopySlice with shorter from a nil slice into a slice of two: dst is nil afterwards
C14_NilSliceErases ==
    /\ Succeeded("CopySlice")
    /\ last.option = "shorter"
    /\ rootT = "[]SimpleStruct"
    /\ SrcSlice(<<>>).nil
    /\ Len(DstSliceBefore(<<>>).e) = 2
    /\ DstSliceAfter(<<>>).nil

----------------------------------------------------------------------------
(* The maps a call copies under a policy: the caller's variables           *)
(* themselves when they are maps, the field MapItems when they are         *)
(* SliceWithOptions or AnnotatedItems.                                     *)

MapSites ==
    IF Kind(rootT) = "map" THEN {<<>>}
    ELSE IF rootT \in {"SliceWithOptions", "AnnotatedItems"} THEN {<<3>>}
    ELSE {}

\* the map (its address) at a site of a variable, and its deep value
MapAt(site, root, h) == GetPath(h[root].v, site)
MapTree(site, root, h) == Tree(SiteType(site), MapAt(site, root, h), h)

SrcMap(site) == MapTree(site, SrcRoot, pre.heap)
DstMapBefore(site) == MapTree(site, DstRoot, pre.heap)
DstMapAfter(site) == MapTree(site, DstRoot, heap)

\* the policy in force for the destination map of the last call: the override
\* registered for the map, else overwrite
MapPolicyInForce(site) ==
    IF MapAt(site, DstRoot, pre.heap) \in DOMAIN pre.mapOptions
    THEN pre.mapOptions[MapAt(site, DstRoot, pre.heap)]
    ELSE "overwrite"

\* the last call copied a non-nil source map at the site under the policy
MapCopiedUnder(site, policy) ==
    /\ Succeeded("Copy")
    /\ ~SrcMap(site).nil
    /\ MapPolicyInForce(site) = policy

\* the unprotected clone of a value: the value itself, fields that are not exported zero
UnprotectedClone(T, s) == Merged(T, NoTag, s, ZeroLit(T))

\* the fields of a struct value that are excluded for the last call's tag
ExcludedFields(T) ==
    IF Kind(T) = "struct" THEN {f \in 1..NumField(T) : Excluded(T, f, last.tag)} ELSE {}

(* C15: under the map policy overwrite (the default), for a non-nil source *)
(* map, the destination's key set after the call is exactly the source's   *)
(* key set, the keys only the destination had being gone, and every value  *)
(* is an unprotected clone of the source value: the fields excluded by the *)
(* tag inside a value are the source's.                                    *)
C15_MapOverwrite ==
    \A site \in MapSites :
        MapCopiedUnder(site, "overwrite") =>
            /\ ~DstMapAfter(site).nil
            /\ DOMAIN DstMapAfter(site).m = DOMAIN SrcMap(site).m
            /\ \A k \in DOMAIN SrcMap(site).m :
                  /\ DstMapAfter(site).m[k] =
                        UnprotectedClone(Elem(SiteType(site)), SrcMap(site).m[k])
                  /\ \A f \in ExcludedFields(Elem(SiteType(site))) :
                        DstMapAfter(site).m[k][f] = SrcMap(site).m[k][f]

\* Copy with tag create and no override between two SliceWithOptions whose MapItems hold
\* first and second (src), first and third (dst): dst holds first and second, and the
\* excluded ID under first is the source's
C15_Witness ==
    /\ rootT = "SliceWithOptions"
    /\ MapCopiedUnder(<<3>>, "overwrite")
    /\ last.tag = Create
    /\ DOMAIN SrcMap(<<3>>).m = {"first", "second"}
    /\ DOMAIN DstMapBefore(<<3>>).m = {"first", "third"}
    /\ DOMAIN DstMapAfter(<<3>>).m = {"first", "second"}
    /\ DstMapAfter(<<3>>).m["first"][1] = SrcMap(<<3>>).m["first"][1]
    /\ DstMapAfter(<<3>>).m["first"][1] # DstMapBefore(<<3>>).m["first"][1]

----------------------------------------------------------------------------
\* a struct value merged at its top level only: the fields excluded for tag from d, the
\* other exported fields whole from s, the fields that are not exported from d when
\* seeded is TRUE and zero otherwise; a value that is no struct merged as Merged does
TopLevelMerged(T, tag, s, d, seeded) ==
    IF Kind(T) = "struct"
    THEN [f \in 1..NumField(T) |->
            IF ~Fields(T)[f].exported
            THEN IF seeded THEN d[f] ELSE ZeroLit(Fields(T)[f].type)
            ELSE IF Excluded(T, f, tag) THEN d[f]
            ELSE s[f]]
    ELSE Merged(T, tag, s, d)

\* the keys the source and the prior destination of a map site both hold
CommonKeys(site) == DOMAIN SrcMap(site).m \cap DOMAIN DstMapBefore(site).m

(* C16: under the map policy match, for a non-nil source map, the          *)
(* destination's key set after the call is exactly the source's key set;   *)
(* for each key present in both, the value is a tag-aware copy of the      *)
(* source value onto the destination's prior value, every sub-field        *)
(* excluded by the tag, at any nesting level of the value, keeping the     *)
(* destination's prior value and every other sub-field being the source's; *)
(* for each key only the source holds, the value is an unprotected clone   *)
(* of the source value.                                                    *)
C16_AsStated ==
    \A site \in MapSites :
        MapCopiedUnder(site, "match") =>
            /\ DOMAIN DstMapAfter(site).m = DOMAIN SrcMap(site).m
            /\ \A k \in DOMAIN SrcMap(site).m :
                  DstMapAfter(site).m[k] =
                      IF k \in CommonKeys(site)
                      THEN Merged(Elem(SiteType(site)), last.tag,
                                  SrcMap(site).m[k], DstMapBefore(site).m[k])
                      ELSE UnprotectedClone(Elem(SiteType(site)), SrcMap(site).m[k])

\* what the code does about C16: the key set is the source's, a key only the source
\* holds gets an unprotected clone, and a struct value under a common key is merged at
\* its top level only: what lies inside its fields that are not excluded is the source's
C16_MatchTopLevel ==
    \A site \in MapSites :
        MapCopiedUnder(site, "match") =>
            /\ DOMAIN DstMapAfter(site).m = DOMAIN SrcMap(site).m
            /\ \A k \in DOMAIN SrcMap(site).m :
                  DstMapAfter(site).m[k] =
                      IF k \in CommonKeys(site)
                      THEN TopLevelMerged(Elem(SiteType(site)), last.tag,
                                          SrcMap(site).m[k], DstMapBefore(site).m[k], FALSE)
                      ELSE UnprotectedClone(Elem(SiteType(site)), SrcMap(site).m[k])

\* Copy with tag update under match between two maps of NestedStructs that both hold
\* first: dst's value keeps its own ID, but the excluded ID of its Child is the source's
C16_NestedOverwritten ==
    /\ rootT = "map[string]NestedStruct"
    /\ MapCopiedUnder(<<>>, "match")
    /\ last.tag = Update
    /\ "first" \in CommonKeys(<<>>)
    /\ DstMapAfter(<<>>).m["first"][1] = DstMapBefore(<<>>).m["first"][1]
    /\ DstMapAfter(<<>>).m["first"][3][1] = SrcMap(<<>>).m["first"][3][1]
    /\ DstMapAfter(<<>>).m["first"][3][1] # DstMapBefore(<<>>).m["first"][3][1]

----------------------------------------------------------------------------
(* C17: under the map policy patch, after the call the destination's key   *)
(* set is the union of its prior keys and the source's keys; every key     *)
(* only the destination held still maps to exactly the value it had before *)
(* the call; the common keys get a tag-aware copy in which excluded fields *)
(* keep the destination's prior values; the keys only the source holds get *)
(* an unprotected clone of the source value.                               *)
C17_AsStated ==
    \A site \in MapSites :
        MapCopiedUnder(site, "patch") =>
            /\ DOMAIN DstMapAfter(site).m =
                  DOMAIN DstMapBefore(site).m \cup DOMAIN SrcMap(site).m
            /\ \A k \in DOMAIN DstMapBefore(site).m \ DOMAIN SrcMap(site).m :
                  DstMapAfter(site).m[k] = DstMapBefore(site).m[k]
            /\ \A k \in CommonKeys(site) :
                  DstMapAfter(site).m[k] =
                      Merged(Elem(SiteType(site)), last.tag,
                             SrcMap(site).m[k], DstMapBefore(site).m[k])
            /\ \A k \in DOMAIN SrcMap(site).m \ DOMAIN DstMapBefore(site).m :
                  DstMapAfter(site).m[k] =
                      UnprotectedClone(Elem(SiteType(site)), SrcMap(site).m[k])

\* what the code does about C17: as stated, but a struct value under a common key is
\* merged at its top level only
C17_PatchTopLevel ==
    \A site \in MapSites :
        MapCopiedUnder(site, "patch") =>
            /\ DOMAIN DstMapAfter(site).m =
                  DOMAIN DstMapBefore(site).m \cup DOMAIN SrcMap(site).m
            /\ \A k \in DOMAIN DstMapBefore(site).m \ DOMAIN SrcMap(site).m :
                  DstMapAfter(site).m[k] = DstMapBefore(site).m[k]
            /\ \A k \in CommonKeys(site) :
                  DstMapAfter(site).m[k] =
                      TopLevelMerged(Elem(SiteType(site)), last.tag,
                                     SrcMap(site).m[k], DstMapBefore(site).m[k], TRUE)
            /\ \A k \in DOMAIN SrcMap(site).m \ DOMAIN DstMapBefore(site).m :
                  DstMapAfter(site).m[k] =
                      UnprotectedClone(Elem(SiteType(site)), SrcMap(site).m[k])

\* Copy with tag update under patch between maps of NestedStructs holding first and
\* second (src), first and third (dst): third is as it was, second is the source's,
\* first keeps its own ID, but the excluded ID of its Child is the source's
C17_NestedOverwritten ==
    /\ rootT = "map[string]NestedStruct"
    /\ MapCopiedUnder(<<>>, "patch")
    /\ last.tag = Update
    /\ DOMAIN SrcMap(<<>>).m = {"first", "second"}
    /\ DOMAIN DstMapBefore(<<>>).m = {"first", "third"}
    /\ DOMAIN DstMapAfter(<<>>).m = {"first", "second", "third"}
    /\ DstMapAfter(<<>>).m["third"] = DstMapBefore(<<>>).m["third"]
    /\ DstMapAfter(<<>>).m["second"] = SrcMap(<<>>).m["second"]
    /\ DstMapAfter(<<>>).m["first"][1] = DstMapBefore(<<>>).m["first"][1]
    /\ DstMapAfter(<<>>).m["first"][3][1] = SrcMap(<<>>).m["first"][3][1]
    /\ DstMapAfter(<<>>).m["first"][3][1] # DstMapBefore(<<>>).m["first"][3][1]

----------------------------------------------------------------------------
RECURSIVE PrimitivesWhole(_, _, _, _)
\* every value of a registered primitive struct type found at the same place in src and
\* in after, without crossing a field excluded for tag, is the same in both.  Places are
\* reached through struct fields, pointers, slice elements, map values and interfaces
PrimitivesWhole(T, tag, src, after) ==
    CASE Kind(T) = "struct" /\ T \in primitiveStructs -> after = src
      [] Kind(T) = "struct" /\ T \notin primitiveStructs ->
            \A i \in 1..NumField(T) :
                Fields(T)[i].exported /\ ~Excluded(T, i, tag) =>
                    PrimitivesWhole(Fields(T)[i].type, tag, src[i], after[i])
      [] Kind(T) = "ptr" ->
            src # <<>> /\ after # <<>> => PrimitivesWhole(Elem(T), tag, src[1], after[1])
      [] Kind(T) = "slice" ->
            \A i \in 1..Min(Len(src.e), Len(after.e)) :
                PrimitivesWhole(Elem(T), tag, src.e[i], after.e[i])
      [] Kind(T) = "map" ->
            \A k \in DOMAIN src.m \cap DOMAIN after.m :
                PrimitivesWhole(Elem(T), tag, src.m[k], after.m[k])
      [] Kind(T) = "interface" ->
            src.t # "" /\ after.t = src.t => PrimitivesWhole(src.t, tag, src.v, after.v)
      [] OTHER -> TRUE

(* C18: a value whose type is registered as a primitive struct (time.Time  *)
(* by default) is copied by whole-value assignment, so that the            *)
(* destination value equals the source value, at every point where the     *)
(* traversal meets it: as a struct field, as a pointer target, as a slice  *)
(* element under every sequence policy, the elements newly created under   *)
(* match included, and as a map value under every map policy.              *)
C18_AsStated ==
    Succeeded("Copy") \/ Succeeded("CopySlice") =>
        PrimitivesWhole(rootT, last.tag, SrcBefore, DstAfter)

\* what the code does about C18, for a slice of time.Time: under overwrite every element
\* is the source's; under match, longer and shorter the elements the destination already
\* had are the source's, and the elements match and longer add are the zero time
C18_TimeElements ==
    rootT = "[]Time" /\ ~SrcSlice(<<>>).nil
    /\ (Succeeded("Copy") \/ Succeeded("CopySlice")) =>
        \A i \in 1..Min(Len(SrcSlice(<<>>).e), Len(DstSliceAfter(<<>>).e)) :
            DstSliceAfter(<<>>).e[i] =
                IF PolicyInForce(<<>>) = "overwrite" \/ i <= Len(DstSliceBefore(<<>>).e)
                THEN SrcSlice(<<>>).e[i]
                ELSE ZeroLit("Time")

\* what the code does about C18, for a map of time.Time: under overwrite, and for a key
\* only the source holds, the value is the source's; for a common key it is the zero
\* time under match and the destination's prior value under patch
C18_TimeValues ==
    rootT = "map[string]Time" /\ ~SrcMap(<<>>).nil /\ Succeeded("Copy") =>
        \A k \in DOMAIN SrcMap(<<>>).m :
            DstMapAfter(<<>>).m[k] =
                IF MapPolicyInForce(<<>>) = "overwrite" \/ k \notin CommonKeys(<<>>)
                THEN SrcMap(<<>>).m[k]
                ELSE IF MapPolicyInForce(<<>>) = "match" THEN ZeroLit("Time")
                ELSE DstMapBefore(<<>>).m[k]

\* what the code does about C18 elsewhere: as a struct field and as a pointer target
\* (TimeStruct), and for every caller's type but the two above, the statement holds
C18_WholeElsewhere ==
    rootT \notin {"[]Time", "map[string]Time"}
    /\ (Succeeded("Copy") \/ Succeeded("CopySlice")) =>
        PrimitivesWhole(rootT, last.tag, SrcBefore, DstAfter)

\* Copy with tag update between two TimeStructs whose UpdatedAt are both set: CreatedAt
\* and the target of UpdatedAt are the source's
C18_FieldAndTarget ==
    /\ Succeeded("Copy")
    /\ rootT = "TimeStruct"
    /\ last.tag = Update
    /\ SrcBefore[3] # <<>> /\ DstBefore[3] # <<>>
    /\ DstAfter[2] = SrcBefore[2] /\ DstAfter[2] # DstBefore[2]
    /\ DstAfter[3] = SrcBefore[3] /\ DstAfter[3] # DstBefore[3]

\* Copy under match between two maps of time.Time that both hold first: the value under
\* first is the zero time afterwards
C18_ZeroValue ==
    /\ rootT = "map[string]Time"
    /\ MapCopiedUnder(<<>>, "match")
    /\ "first" \in CommonKeys(<<>>)
    /\ DstMapAfter(<<>>).m["first"] = ZeroLit("Time")
    /\ SrcMap(<<>>).m["first"] # ZeroLit("Time")

----------------------------------------------------------------------------
\* the engine as the last call found it: CopySlice has stored its option for dst by then
ProtectorAtCall ==
    [Protector EXCEPT
        !.sliceOptions =
            IF last.op = "CopySlice"
            THEN Store(pre.sliceOptions, SliceKey(SliceAt(<<>>, DstRoot, pre.heap)),
                       last.option)
            ELSE pre.sliceOptions,
        !.mapOptions = pre.mapOptions]

\* the policy the last call resolved for the destination slice and map at a site
ResolvedSlice(site) == getSliceOption(ProtectorAtCall, SliceAt(site, DstRoot, pre.heap))
ResolvedMap(site) == getMapOption(ProtectorAtCall, MapAt(site, DstRoot, pre.heap))

\* the policy declared on the field a site is, "" when there is none or the site is the
\* variable itself
Declared(site) ==
    IF site = <<>> THEN "" ELSE TagGet(Fields(rootT)[site[1]], Protector.optTagName)

\* the policy by the stated order: the override, else the declared policy, else overwrite
Stated(registry, key, site) ==
    IF key \in DOMAIN registry THEN registry[key]
    ELSE IF Declared(site) # "" THEN Declared(site)
    ELSE "overwrite"

(* C19: the policy for a slice or map is the override registered for that  *)
(* container instance if there is one; otherwise the policy declared on    *)
(* the field by the protectopt tag; otherwise overwrite.                   *)
C19_AsStated ==
    /\ \A site \in SliceSites :
          Succeeded("Copy") \/ Succeeded("CopySlice") =>
              ResolvedSlice(site) =
                  Stated(ProtectorAtCall.sliceOptions,
                         SliceKey(SliceAt(site, DstRoot, pre.heap)), site)
    /\ \A site \in MapSites :
          Succeeded("Copy") =>
              ResolvedMap(site) =
                  Stated(ProtectorAtCall.mapOptions, MapAt(site, DstRoot, pre.heap), site)

\* what the code does about C19: the policy is the override, else overwrite, whatever
\* the field declares; PolicyInForce and MapPolicyInForce are that policy
C19_OverrideElseOverwrite ==
    /\ \A site \in SliceSites :
          Succeeded("Copy") \/ Succeeded("CopySlice") =>
              /\ ResolvedSlice(site) =
                     IF SliceKey(SliceAt(site, DstRoot, pre.heap))
                            \in DOMAIN ProtectorAtCall.sliceOptions
                     THEN ProtectorAtCall.sliceOptions[
                              SliceKey(SliceAt(site, DstRoot, pre.heap))]
                     ELSE "overwrite"
              /\ ResolvedSlice(site) = PolicyInForce(site)
    /\ \A site \in MapSites :
          Succeeded("Copy") =>
              /\ ResolvedMap(site) =
                     IF MapAt(site, DstRoot, pre.heap) \in DOMAIN pre.mapOptions
                     THEN pre.mapOptions[MapAt(site, DstRoot, pre.heap)]
                     ELSE "overwrite"
              /\ ResolvedMap(site) = MapPolicyInForce(site)

\* Copy with tag create and no override between two AnnotatedItems whose Items hold one
\* element each: Items is declared match, and the element has the source's ID afterwards,
\* as under overwrite
C19_DeclaredMatchIgnored ==
    /\ Succeeded("Copy")
    /\ rootT = "AnnotatedItems"
    /\ last.tag = Create
    /\ Declared(<<2>>) = "match"
    /\ SliceKey(SliceAt(<<2>>, DstRoot, pre.heap)) \notin DOMAIN pre.sliceOptions
    /\ Len(SrcSlice(<<2>>).e) = 1 /\ Len(DstSliceBefore(<<2>>).e) = 1
    /\ DstSliceAfter(<<2>>).e[1][1] = SrcSlice(<<2>>).e[1][1]
    /\ DstSliceAfter(<<2>>).e[1][1] # DstSliceBefore(<<2>>).e[1][1]

\* Copy with no override between two AnnotatedItems whose MapItems hold different keys:
\* MapItems is declared patch, and the destination's own key is gone afterwards
C19_DeclaredPatchIgnored ==
    /\ Succeeded("Copy")
    /\ rootT = "AnnotatedItems"
    /\ Declared(<<3>>) = "patch"
    /\ MapAt(<<3>>, DstRoot, pre.heap) \notin DOMAIN pre.mapOptions
    /\ ~SrcMap(<<3>>).nil
    /\ DOMAIN DstMapBefore(<<3>>).m \ DOMAIN SrcMap(<<3>>).m # {}
    /\ DOMAIN DstMapAfter(<<3>>).m = DOMAIN SrcMap(<<3>>).m

----------------------------------------------------------------------------
RECURSIVE ResolvesUnknown(_, _, _, _, _, _)
\* copying the value s onto the value d of type T in the heap h, the traversal resolves
\* an unrecognized policy token for a slice or a map whose source is not nil.  The
\* traversal goes down the fields that are exported and not excluded, the targets of
\* pointers, the elements of a slice copied under match, longer or shorter, and, when
\* intoValues, the values that are no structs of a map copied under match or patch
ResolvesUnknown(intoValues, T, tag, s, d, h) ==
    CASE Kind(T) = "struct" ->
            /\ ~IsPrimitiveStruct(ProtectorAtCall, T)
            /\ \E i \in 1..NumField(T) :
                  /\ Fields(T)[i].exported
                  /\ ~Excluded(T, i, tag)
                  /\ ResolvesUnknown(intoValues, Fields(T)[i].type, tag, s[i], d[i], h)
      [] Kind(T) = "ptr" ->
            /\ s # NIL
            /\ ResolvesUnknown(intoValues, Elem(T), tag, h[s].v,
                               IF d = NIL THEN Zero(Elem(T)) ELSE h[d].v, h)
      [] Kind(T) = "slice" ->
            /\ s.a # NIL
            /\ LET option == getSliceOption(ProtectorAtCall, d) IN
               CASE option = "overwrite" -> FALSE
                 [] option \in {"match", "longer", "shorter"} ->
                        \/ \E i \in 1..Min(s.n, d.n) :
                              ResolvesUnknown(intoValues, Elem(T), tag,
                                              h[s.a].v[i], h[d.a].v[i], h)
                        \/ /\ option = "match"
                           /\ \E i \in (d.n + 1)..s.n :
                                 ResolvesUnknown(intoValues, Elem(T), tag,
                                                 h[s.a].v[i], Zero(Elem(T)), h)
                 [] OTHER -> TRUE
      [] Kind(T) = "map" ->
            /\ s # NIL
            /\ LET option == getMapOption(ProtectorAtCall, d) IN
               CASE option = "overwrite" -> FALSE
                 [] option \in {"match", "patch"} ->
                        /\ intoValues
                        /\ Kind(Elem(T)) # "struct"
                        /\ d # NIL
                        /\ \E k \in DOMAIN h[s].v \cap DOMAIN h[d].v :
                              ResolvesUnknown(intoValues, Elem(T), tag,
                                              h[s].v[k], h[d].v[k], h)
                 [] OTHER -> TRUE
      [] Kind(T) = "interface" ->
            /\ s.t # ""
            /\ ResolvesUnknown(intoValues, s.t, tag, s.v, Zero(s.t), h)
      [] OTHER -> FALSE

\* the last call was Copy or CopySlice with good arguments
Traversed ==
    /\ last.op = "Copy" \/ (last.op = "CopySlice" /\ Kind(rootT) = "slice")
    /\ last.src \in {"ptr", "ptr2"}
    /\ last.dst \in {"ptr", "ptr2"}

\* the last call resolved an unrecognized policy token
UnknownResolved(intoValues) ==
    /\ Traversed
    /\ ResolvesUnknown(intoValues, rootT, last.tag, pre.heap[SrcRoot].v,
                       pre.heap[DstRoot].v, pre.heap)

\* the error is that of an unknown option, wrapped or not in the names of the fields
UnknownOption(err) ==
    Len(err) >= 2 /\ err[Len(err) - 1] \in {"unknown slice option", "unknown map option"}

(* C20: whenever an unrecognized policy token is resolved for a container  *)
(* with a non-nil source at any depth of the traversal (the top-level      *)
(* slice of CopySlice, a slice or map field, a container inside a slice    *)
(* element or a map value), the top-level Copy or CopySlice call returns   *)
(* an error; the error is never dropped.                                   *)
C20_AsStated == UnknownResolved(TRUE) => UnknownOption(last.err)

\* what the code does about C20: the call returns the error exactly when the token is
\* resolved anywhere but inside a map value; the error of a container inside a map value
\* that is no struct is dropped
C20_ReportedOutsideMapValues ==
    Traversed => (UnknownOption(last.err) <=> UnknownResolved(FALSE))

\* Copy under match between two maps of slices that both hold first, bogus being
\* registered for the destination's slice under first: the call has returned nil
C20_ErrorDropped ==
    /\ rootT = "map[string][]SimpleStruct"
    /\ Succeeded("Copy")
    /\ MapPolicyInForce(<<>>) = "match"
    /\ "first" \in CommonKeys(<<>>)
    /\ ~SrcMap(<<>>).m["first"].nil
    /\ getSliceOption(ProtectorAtCall, pre.heap[MapAt(<<>>, DstRoot, pre.heap)].v["first"])
           = "bogus"

\* Copy under match between two slices of SliceWithOptions of one element, bogus being
\* registered for Items of the destination's element: the call has returned the error
C20_ErrorFromElement ==
    /\ rootT = "[]SliceWithOptions"
    /\ last.op = "Copy" /\ Traversed
    /\ PolicyInForce(<<>>) = "match"
    /\ Len(SrcSlice(<<>>).e) = 1 /\ Len(DstSliceBefore(<<>>).e) = 1
    /\ ~SrcSlice(<<>>).e[1][2].nil
    /\ UnknownOption(last.err) /\ last.err[Len(last.err)] = "bogus"

----------------------------------------------------------------------------
\* the last two calls were both Copy("", &src, &dst)
TwiceCopied ==
    /\ last.op = "Copy" /\ last.tag = NoTag
    /\ last.src = "ptr" /\ last.dst = "ptr"
    /\ last.prev.op = "Copy" /\ last.prev.tag = NoTag
    /\ last.prev.src = "ptr" /\ last.prev.dst = "ptr"

(* C21: idempotence: for all x and y of the same type, calling             *)
(* Copy("", &x, &y) twice in a row leaves y equal to what it was after     *)
(* the first call.                                                         *)
C21_AsStated == TwiceCopied => DstAfter = DstBefore

\* what the code does about C21: the second call changes nothing when no override is
\* registered, which is the state of every engine used through Copy, Clone and CopySlice
C21_IdempotentWithoutOverride ==
    TwiceCopied /\ pre.sliceOptions = EmptyMap /\ pre.mapOptions = EmptyMap =>
        /\ DstAfter = DstBefore
        /\ last.err = <<>> /\ last.prev.err = <<>>

\* two calls on two slices of SimpleStruct, the first under longer with a longer source:
\* the element the first call appended was zero, the second call has made it the source's
C21_SecondCallDiffers ==
    /\ TwiceCopied
    /\ rootT = "[]SimpleStruct"
    /\ last.err = <<>> /\ last.prev.err = <<>>
    /\ Len(DstSliceBefore(<<>>).e) = Len(SrcSlice(<<>>).e)
    /\ \E i \in 1..Len(SrcSlice(<<>>).e) :
          /\ DstSliceBefore(<<>>).e[i] = ZeroLit("SimpleStruct")
          /\ DstSliceAfter(<<>>).e[i] = SrcSlice(<<>>).e[i]
          /\ SrcSlice(<<>>).e[i] # ZeroLit("SimpleStruct")

\* two calls without an override between two TimeStructs: the first has changed dst, the
\* second has not
C21_SecondCallSame ==
    /\ TwiceCopied
    /\ rootT = "TimeStruct"
    /\ pre.sliceOptions = EmptyMap /\ pre.mapOptions = EmptyMap
    /\ DstAfter = DstBefore
    /\ DstAfter[2] = SrcBefore[2] /\ DstAfter[4] = SrcBefore[4]

----------------------------------------------------------------------------
\* the body the context gave the last call's c.Bind, and whether decoding it fails
BodyAtCall == IF pre.req.rebindable THEN pre.req.saved ELSE pre.req.body
DecodeFails == EchoBind(BodyAtCall, PtrArg(rootT, DstRoot), pre.heap).err # <<>>

\* the last call was Bind(tag, c, &dst)
Bound == last.op = "Bind"

C22_DecodeFailed ==
    /\ Bound
    /\ rootT = "SimpleStruct"
    /\ BodyAtCall.k = "obj" /\ DecodeFails
    /\ last.err = DecodeError
    /\ DstAfter = DstBefore

\* Bind with tag create into a SliceWithOptions whose Items hold one element: the
\* element's ID, excluded for create, is the payload's afterwards
C22_ItemOverwritten ==
    /\ Bound
    /\ rootT = "SliceWithOptions"
    /\ last.tag = Create
    /\ last.err = <<>>
    /\ Len(DstSliceBefore(<<2>>).e) >= 1
    /\ DstSliceAfter(<<2>>).e[1][1] = "p-ID1"
    /\ DstAfter[1] = DstBefore[1]

----------------------------------------------------------------------------
\* the last call copied a nil or an empty source map at the site under patch
PatchedFromNothing(site) ==
    /\ Succeeded("Copy")
    /\ MapPolicyInForce(site) = "patch"
    /\ SrcMap(site).nil \/ DOMAIN SrcMap(site).m = {}

(* C23: under the map policy patch a nil or empty source map is a no-op:   *)
(* the destination map has the same keys and values after the call as      *)
(* before.                                                                 *)
C23_AsStated ==
    \A site \in MapSites :
        PatchedFromNothing(site) => DstMapAfter(site).m = DstMapBefore(site).m

\* what the code does about C23: an empty source map that is not nil is a no-op under
\* patch, and a nil source map leaves the destination nil
C23_EmptyNoOpNilErases ==
    \A site \in MapSites :
        PatchedFromNothing(site) =>
            IF SrcMap(site).nil
            THEN DstMapAfter(site).nil
            ELSE DstMapAfter(site).m = DstMapBefore(site).m

\* Copy under patch from a nil map into a map holding first and third: the destination
\* is a nil map afterwards
C23_NilErases ==
    /\ rootT = "map[string]SimpleStruct"
    /\ PatchedFromNothing(<<>>)
    /\ SrcMap(<<>>).nil
    /\ DOMAIN DstMapBefore(<<>>).m = {"first", "third"}
    /\ DstMapAfter(<<>>).nil

\* Copy under patch from an empty map that is not nil into a map holding first and
\* third: the destination is as it was
C23_EmptyKept ==
    /\ rootT = "map[string]SimpleStruct"
    /\ PatchedFromNothing(<<>>)
    /\ ~SrcMap(<<>>).nil
    /\ DOMAIN DstMapBefore(<<>>).m = {"first", "third"}
    /\ DstMapAfter(<<>>) = DstMapBefore(<<>>)

----------------------------------------------------------------------------
\* the fields of interface type of the variables, as paths from the root
IfaceSites == IF rootT = "AnyStruct" THEN {<<2>>} ELSE {}

\* the dynamic value at a site of src before the call, of dst before and after it
SrcIface(site) == GetPath(SrcBefore, site)
DstIfaceBefore(site) == GetPath(DstBefore, site)
DstIfaceAfter(site) == GetPath(DstAfter, site)

(* C24: after a successful Copy, a destination of interface type is nil if *)
(* the source interface is nil; otherwise it holds a value of the source's *)
(* concrete type that is the tag-aware copy of the source's into a zero    *)
(* value: inside it the fields excluded by the tag are zero, not what the  *)
(* destination held, and all other fields equal the source's, whatever     *)
(* concrete type the destination held before.                              *)
C24_InterfaceRebuilt ==
    \A site \in IfaceSites :
        Succeeded("Copy") =>
            IF SrcIface(site).t = "" THEN DstIfaceAfter(site) = NilIface
            ELSE /\ DstIfaceAfter(site).t = SrcIface(site).t
                 /\ DstIfaceAfter(site).v =
                        Merged(SrcIface(site).t, last.tag, SrcIface(site).v,
                               ZeroLit(SrcIface(site).t))

\* Copy with tag create between AnyStructs whose Values both hold a SimpleStruct: the
\* destination's Value has a zero ID, not the ID it held, and the source's Code and Name
C24_Witness ==
    /\ rootT = "AnyStruct"
    /\ Succeeded("Copy")
    /\ last.tag = Create
    /\ SrcIface(<<2>>).t = "SimpleStruct"
    /\ DstIfaceBefore(<<2>>).t = "SimpleStruct"
    /\ DstIfaceBefore(<<2>>).v[1] # ""
    /\ DstIfaceAfter(<<2>>).v =
           <<"", SrcIface(<<2>>).v[2], SrcIface(<<2>>).v[3]>>
    /\ SrcIface(<<2>>).v[2] # ""

\* Copy from a nil Value clears a Value that held a pointer; Copy from a Value holding
\* a struct replaces a Value that held a pointer
C24_Cleared ==
    /\ rootT = "AnyStruct"
    /\ Succeeded("Copy")
    /\ SrcIface(<<2>>).t = ""
    /\ DstIfaceBefore(<<2>>).t = "*SimpleStruct"
    /\ DstIfaceAfter(<<2>>) = NilIface

C24_TypeReplaced ==
    /\ rootT = "AnyStruct"
    /\ Succeeded("Copy")
    /\ SrcIface(<<2>>).t = "SimpleStruct"
    /\ DstIfaceBefore(<<2>>).t = "*SimpleStruct"
    /\ DstIfaceAfter(<<2>>).t = "SimpleStruct"

----------------------------------------------------------------------------
\* the last call was a Copy between structs that failed in a field: its error starts with
\* a field's name
FieldNames(T) == IF Kind(T) = "struct" THEN {Fields(T)[i].name : i \in 1..NumField(T)} ELSE {}
FieldNo(T, name) == CHOOSE i \in 1..NumField(T) : Fields(T)[i].name = name

FieldFailed ==
    /\ last.op = "Copy"
    /\ last.src = "ptr" /\ last.dst = "ptr"
    /\ last.err # <<>>
    /\ last.err[1] \in FieldNames(rootT)

\* a registry without the overrides no policy is known for
Known(m) == [k \in {x \in DOMAIN m : m[x] # "bogus"} |-> m[k]]

\* dst after the same Copy by an engine whose registries hold no such override: every
\* field written
DstWritten ==
    LET r == Copy([ProtectorAtCall EXCEPT !.sliceOptions = Known(@),
                                          !.mapOptions = Known(@)],
                  last.tag, PtrArg(rootT, SrcRoot), PtrArg(rootT, DstRoot), pre.heap)
    IN TreeAt(rootT, DstRoot, r.h)

RECURSIVE StoppedAt(_, _, _, _, _)
\* a struct whose copy stopped with err: err names a field; the fields before it are as a
\* whole copy writes them, the fields after it as they were, and the named field itself
\* stopped with the rest of err if it is a struct
StoppedAt(T, err, before, after, written) ==
    IF err = <<>> \/ err[1] \notin FieldNames(T) THEN Kind(T) # "struct"
    ELSE LET i == FieldNo(T, err[1]) IN
         /\ Fields(T)[i].exported
         /\ ~Excluded(T, i, last.tag)
         /\ \A j \in 1..(i - 1) : after[j] = written[j]
         /\ \A j \in (i + 1)..NumField(T) : after[j] = before[j]
         /\ StoppedAt(Fields(T)[i].type, Tail(err), before[i], after[i], written[i])

(* C25: when the copy of field i of a struct fails, copyStruct stops and   *)
(* returns an error that names field i, a failure inside a struct of the   *)
(* struct giving a chain of field names; the fields before field i hold    *)
(* what the copy wrote to them, the fields after field i hold what they    *)
(* held, and nothing is rolled back.                                       *)
C25_FieldCopyFailure ==
    /\ FieldFailed =>
          /\ StoppedAt(rootT, last.err, DstBefore, DstAfter, DstWritten)
          /\ UnknownOption(last.err)
    /\ last.op = "Copy" /\ last.src = "ptr" /\ last.dst = "ptr" /\ last.err # <<>>
          /\ Kind(rootT) = "struct" => FieldFailed

\* Copy with the empty tag between Envelopes, the slice Body.Items of dst registered
\* under an unknown option: the error names Body, then Items; Title and Body.ID are the
\* source's; Body.MapItems and Note are what dst held
C25_Witness ==
    /\ rootT = "Envelope"
    /\ FieldFailed
    /\ last.tag = NoTag
    /\ last.err = <<"Body", "Items", "unknown slice option", "bogus">>
    /\ DstAfter[1] = SrcBefore[1] /\ DstAfter[1] # DstBefore[1]
    /\ DstAfter[2][1] = SrcBefore[2][1] /\ DstAfter[2][1] # DstBefore[2][1]
    /\ DstAfter[2][3] = DstBefore[2][3] /\ DstAfter[2][3] # SrcBefore[2][3]
    /\ DstAfter[3] = DstBefore[3] /\ DstAfter[3] # SrcBefore[3]

\* Copy between Envelopes whose Body.MapItems are registered under an unknown option:
\* the error names Body, then MapItems, and Body.Items, copied before it, are the source's
C25_LastFieldFailed ==
    /\ rootT = "Envelope"
    /\ FieldFailed
    /\ last.err = <<"Body", "MapItems", "unknown map option", "bogus">>
    /\ ~SrcBefore[2][2].nil
    /\ DstAfter[2][2] = SrcBefore[2][2] /\ DstAfter[2][2] # DstBefore[2][2]
    /\ DstAfter[2][3] = DstBefore[2][3]

----------------------------------------------------------------------------
\* the last call was a CopySlice that got as far as installing its override
Installed ==
    /\ last.op = "CopySlice"
    /\ last.src = "ptr" /\ last.dst = "ptr"
    /\ Kind(rootT) = "slice"

\* the key the last call stored its override under, and the destination's key now
KeyAtCall == SliceKey(SliceAt(<<>>, DstRoot, pre.heap))
KeyNow == SliceKey(SliceAt(<<>>, DstRoot, heap))

C26_AfterError ==
    /\ Installed
    /\ last.err = <<"unknown slice option", "bogus">>
    /\ sliceOptions = EmptyMap

\* CopySlice on a destination the caller had registered under longer: the caller's entry
\* is gone as well
C26_CallersEntryGone ==
    /\ Installed
    /\ KeyAtCall \in DOMAIN pre.sliceOptions
    /\ pre.sliceOptions[KeyAtCall] = "longer"
    /\ last.option = "shorter"
    /\ sliceOptions = EmptyMap

----------------------------------------------------------------------------
(* Goroutines.  Two goroutines call CopySlice on the engine they share,    *)
(* each with a source and a destination slice of its own and a policy of   *)
(* its own.  A call is three steps: the Store of its override, the         *)
(* traversal, and the deferred Delete.  The traversal of a slice of        *)
(* SimpleStruct reads the registry once, when copySlice starts, and then   *)
(* works on its own variables and on cells it allocates, so the steps of   *)
(* the other goroutine that fall inside it are taken before or after it.   *)

GoType == "[]SimpleStruct"
GoOptions == SliceOptionNames \ {"bogus"}
Goroutines == {1, 2}

\* the heap once the two goroutines' sources and destinations are declared
GoHeap(s1, d1, s2, d2) ==
    LET h1 == Declare(GoType, Build(GoType, s1, <<[t |-> "zerobase", v |-> <<>>]>>))
        h2 == Declare(GoType, Build(GoType, d1, h1))
        h3 == Declare(GoType, Build(GoType, s2, h2))
        h4 == Declare(GoType, Build(GoType, d2, h3))
    IN [h |-> Alloc(h4, "Other", <<"other">>),
        src |-> <<Len(h1), Len(h3)>>, dst |-> <<Len(h2), Len(h4)>>]

\* go p.CopySlice(tag, &src, &dst, option), not started yet
GoCall(tag, src, dst, option) ==
    [pc |-> "called", tag |-> tag, src |-> src, dst |-> dst, option |-> option,
     key |-> NIL, err |-> <<>>]

InitGo ==
    /\ rootT = GoType
    /\ \E s1 \in SimpleSlices("s"), d1 \in SimpleSlices("d"),
          s2 \in SimpleSlices("s"), d2 \in SimpleSlices("d"),
          o1 \in GoOptions, o2 \in GoOptions :
          LET g == GoHeap(s1, d1, s2, d2) IN
          /\ o1 # o2
          /\ heap = g.h
          /\ srcA = g.src[1]
          /\ dstA = g.dst[1]
          /\ othA = Len(g.h)
          /\ procs = <<GoCall(Create, g.src[1], g.dst[1], o1),
                       GoCall(Create, g.src[2], g.dst[2], o2)>>
    /\ req = NoRequest
    /\ sliceOptions = EmptyMap
    /\ mapOptions = EmptyMap
    /\ primitiveStructs = {"Time"}
    /\ ret = NilArg
    /\ pre = [heap |-> heap, sliceOptions |-> sliceOptions, mapOptions |-> mapOptions,
              req |-> req]
    /\ last = NoCall
    /\ calls = 0
    /\ caller = [limit |-> 0, shapes |-> "go"]
    /\ tagValue = <<>>
    /\ tagArg = <<>>
    /\ protected = FALSE

\* p.sliceOptions.Store(fmt.Sprintf("%p", dstVal.Interface()), option), and the key of
\* the deferred Delete, evaluated at the defer statement
GoStore(i) ==
    /\ procs[i].pc = "called"
    /\ ArgError(PtrArg(rootT, procs[i].src), PtrArg(rootT, procs[i].dst)) = <<>>
    /\ LET key == SliceKey(Read(heap, Loc(procs[i].dst))) IN
          /\ sliceOptions' = Store(sliceOptions, key, procs[i].option)
          /\ procs' = [procs EXCEPT ![i].pc = "stored", ![i].key = key]
    /\ UNCHANGED <<heap, mapOptions, primitiveStructs, rootT, srcA, dstA, othA, ret,
                   pre, last, calls, caller, tagValue, tagArg, protected, req>>

\* p.copySlice(tag, srcVal, dstVal)
GoCopied(i, r) ==
    /\ heap' = r.h
    /\ procs' = [procs EXCEPT ![i].pc = "copied", ![i].err = r.err]

GoCopy(i) ==
    /\ procs[i].pc = "stored"
    /\ GoCopied(i, copySlice(Protector, procs[i].tag, rootT, Loc(procs[i].src),
                             Loc(procs[i].dst), heap))
    /\ UNCHANGED <<sliceOptions, mapOptions, primitiveStructs, rootT, srcA, dstA, othA,
                   ret, pre, last, calls, caller, tagValue, tagArg, protected, req>>

\* the deferred p.sliceOptions.Delete(key), and the return
GoDelete(i) ==
    /\ procs[i].pc = "copied"
    /\ sliceOptions' = Delete(sliceOptions, procs[i].key)
    /\ procs' = [procs EXCEPT ![i].pc = "returned"]
    /\ UNCHANGED <<heap, mapOptions, primitiveStructs, rootT, srcA, dstA, othA, ret,
                   pre, last, calls, caller, tagValue, tagArg, protected, req>>

NextGo == \E i \in Goroutines : GoStore(i) \/ GoCopy(i) \/ GoDelete(i)

SpecGo == InitGo /\ [][NextGo]_vars

\* what goroutine i's call does when it runs alone from the state the two started in
Alone(i) ==
    CopySlice([Protector EXCEPT !.sliceOptions = pre.sliceOptions], procs[i].tag,
              PtrArg(rootT, procs[i].src), PtrArg(rootT, procs[i].dst),
              procs[i].option, pre.heap)

\* goroutine i's call has returned what it returns alone, its destination being what
\* the call alone makes it
AsAlone(i) ==
    /\ procs[i].err = Alone(i).err
    /\ TreeAt(rootT, procs[i].dst, heap) = TreeAt(rootT, procs[i].dst, Alone(i).h)

\* the keys of the two destinations when the goroutines start
GoKey(i) == SliceKey(Read(pre.heap, Loc(procs[i].dst)))

(* C27: when two CopySlice calls on the same engine run concurrently on    *)
(* two distinct destination slices with different policies, in every       *)
(* interleaving each call produces the same result as if it had run alone, *)
(* also when the destinations are nil or empty slices.                     *)
C27_AsStated ==
    \A i \in DOMAIN procs : procs[i].pc = "returned" => AsAlone(i)

\* what the code does about C27: the calls are independent when the destinations have
\* different data pointers, which two slices that are not empty have
C27_DistinctPointers ==
    \A i \in DOMAIN procs :
        procs[i].pc = "returned" /\ GoKey(1) # GoKey(2) => AsAlone(i)

\* two goroutines with nil destinations, the first under shorter, the second under
\* overwrite: the first call has filled its destination from its source, as overwrite does
C27_NilDestinations ==
    /\ procs # NoProcs
    /\ procs[1].pc = "returned" /\ procs[2].pc = "returned"
    /\ procs[1].option = "shorter" /\ procs[2].option = "overwrite"
    /\ TreeAt(rootT, procs[1].dst, pre.heap).nil
    /\ TreeAt(rootT, procs[2].dst, pre.heap).nil
    /\ Len(TreeAt(rootT, procs[1].src, pre.heap).e) = 2
    /\ Len(TreeAt(rootT, procs[1].dst, heap).e) = 2
    /\ Len(TreeAt(rootT, procs[1].dst, Alone(1).h).e) = 0

\* two goroutines with destinations that are not empty: both calls as alone
C27_Independent ==
    /\ procs # NoProcs
    /\ procs[1].pc = "returned" /\ procs[2].pc = "returned"
    /\ procs[1].option = "match" /\ procs[2].option = "overwrite"
    /\ Len(TreeAt(rootT, procs[1].dst, pre.heap).e) = 1
    /\ Len(TreeAt(rootT, procs[2].dst, pre.heap).e) = 1
    /\ Len(TreeAt(rootT, procs[1].src, pre.heap).e) = 2
    /\ AsAlone(1) /\ AsAlone(2)

----------------------------------------------------------------------------
\* the context ReBindable returned, before any bind: nothing read of the payload yet
Replayed == [body |-> pre.req.saved, saved |-> pre.req.saved, rebindable |-> TRUE]

\* the last call was a Bind or a BindSlice on the context ReBindable returned
BoundAgain == last.op \in {"Bind", "BindSlice"} /\ pre.req.rebindable

\* the engine as the last call of a handler found it
EngineAtCall ==
    [Protector EXCEPT !.sliceOptions = pre.sliceOptions, !.mapOptions = pre.mapOptions]

\* r is what the last call returned and what it made of dst
IsResult(r) == last.err = r.err /\ DstAfter = TreeAt(rootT, DstRoot, r.h)

\* the last call did what the same call does on the whole payload: same error, same dst
SeesWholePayload ==
    IF last.op = "Bind"
    THEN IsResult(Bind(EngineAtCall, last.tag, Replayed, PtrArg(rootT, DstRoot), pre.heap))
    ELSE \E jsonArray \in IF JsonArrays(Replayed.body) = {} THEN {NoArray}
                          ELSE JsonArrays(Replayed.body) :
            IsResult(BindSlice(EngineAtCall, last.tag, Replayed, PtrArg(rootT, DstRoot),
                               last.option, jsonArray, pre.heap))

(* C28: after ReBindable(c), every one of any number of successive Bind or *)
(* BindSlice calls on the returned context decodes the complete original   *)
(* payload: no call sees a body an earlier call has consumed, so its       *)
(* result depends only on the payload, the tag and the policy.             *)
C28_AsStated == BoundAgain => SeesWholePayload

\* what the code does about C28: Bind always decodes the whole payload, BindSlice does
\* unless a Bind has read the body before it
C28_BindReplays ==
    BoundAgain /\ (last.op = "Bind" \/ pre.req.body = pre.req.saved) => SeesWholePayload

\* ReBindable, Bind, BindSlice on a body holding an array of two items: BindSlice finds
\* the body read to its end, fails, and leaves dst as it was
C28_ConsumedByBind ==
    /\ BoundAgain
    /\ rootT = "[]SimpleStruct"
    /\ last.op = "BindSlice" /\ last.prev.op = "Bind"
    /\ last.prev.err = <<>>
    /\ pre.req.saved = JArr(<<Item(1), Item(2)>>)
    /\ pre.req.body = EmptyBody
    /\ last.err = SyntaxError
    /\ DstAfter = DstBefore

\* ReBindable, BindSlice, Bind on the same body: both see the two items
C28_BindAfterBindSlice ==
    /\ BoundAgain
    /\ rootT = "[]SimpleStruct"
    /\ last.op = "Bind" /\ last.prev.op = "BindSlice"
    /\ last.err = <<>> /\ last.prev.err = <<>>
    /\ pre.req.saved = JArr(<<Item(1), Item(2)>>)
    /\ Len(DstAfter.e) = 2

----------------------------------------------------------------------------
(* A call followed activation by activation.  The caller links Nodes by    *)
(* their Next pointers, in a chain or in a cycle; Copy and Clone call      *)
(* copyValue on the first Node, and every activation of copyValue on a     *)
(* Node copies its fields (copyStruct) and, for Next, either returns       *)
(* (source pointer nil) or calls copyValue on the Node pointed to          *)
(* (copyPtr).  The depth of the recursion has no bound in the code; here   *)
(* it stops growing at MaxDepth, where a call that has not returned stays. *)

MaxDepth == MaxNodes + 2

Next_ == 3   \* the index of the field Next of Node

\* the heap of a caller with n source Nodes (the variable src is the first), each
\* pointing to the next and the last one to last: to nothing or to one of the n; a
\* variable dst whose Next is dnext, and a second Node dst may point to
WalkHeap(n, last_, dnext) ==
    <<[t |-> "zerobase", v |-> <<>>]>> \o
    [i \in 1..n |-> [t |-> "Node",
                     v |-> <<Str("s-id", i), Str("s-name", i),
                             IF i < n THEN i + 2 ELSE last_>>]] \o
    <<[t |-> "Node", v |-> <<"d-id1", "d-name1", dnext>>],
      [t |-> "Node", v |-> <<"d-id2", "d-name2", NIL>>],
      [t |-> "Other", v |-> <<"other">>]>>

InitWalk ==
    /\ rootT = "Node"
    /\ \E n \in 1..MaxNodes :
       \E last_ \in {NIL} \cup 2..(n + 1), dnext \in {NIL, n + 2, n + 3} :
          /\ heap = WalkHeap(n, last_, dnext)
          /\ srcA = 2
          /\ dstA = n + 2
          /\ othA = n + 4
    /\ procs = NoProcs
    /\ req = NoRequest
    /\ sliceOptions = EmptyMap
    /\ mapOptions = EmptyMap
    /\ primitiveStructs = {"Time"}
    /\ ret = NilArg
    /\ pre = [heap |-> heap, sliceOptions |-> sliceOptions, mapOptions |-> mapOptions,
              req |-> req]
    /\ last = NoCall
    /\ calls = 0
    /\ caller = [limit |-> 1, shapes |-> "walk"]
    /\ tagValue = <<>>
    /\ tagArg = <<>>
    /\ protected = FALSE

\* the first activation of copyValue of a call: on src.Elem() and dst.Elem()
Activation(op, tag, s, d) ==
    [pc |-> "copyValue", op |-> op, tag |-> tag, s |-> s, d |-> d, depth |-> 1]

\* p.Copy(tag, &src, &dst) up to its call of copyValue
DoWalkCopy(tag) ==
    /\ procs = NoProcs
    /\ ArgError(PtrArg(rootT, srcA), PtrArg(rootT, dstA)) = <<>>
    /\ procs' = <<Activation("Copy", tag, srcA, dstA)>>
    /\ UNCHANGED <<heap, sliceOptions, mapOptions, primitiveStructs, rootT, srcA, dstA,
                   othA, ret, pre, last, calls, caller, tagValue, tagArg, protected, req>>

\* p.Clone(&src) up to its call of copyValue: dstVal := reflect.New(...)
DoWalkClone ==
    /\ procs = NoProcs
    /\ heap' = Alloc(heap, rootT, Zero(rootT))
    /\ procs' = <<Activation("Clone", NoTag, srcA, Len(heap) + 1)>>
    /\ UNCHANGED <<sliceOptions, mapOptions, primitiveStructs, rootT, srcA, dstA,
                   othA, ret, pre, last, calls, caller, tagValue, tagArg, protected, req>>

RECURSIVE copyNodeFields(_, _, _, _, _, _)
\* the loop of copyStruct on a Node up to the field Next: the fields that are no
\* pointers, copied by copyValue unless excluded
copyNodeFields(p, tag, s, d, h, i) ==
    IF i > NumField("Node") \/ Kind(Fields("Node")[i].type) = "ptr" THEN h
    ELSE IF ~Fields("Node")[i].exported THEN copyNodeFields(p, tag, s, d, h, i + 1)
    ELSE IF tag # <<>> /\ isProtected(TagGet(Fields("Node")[i], p.tagName), tag)
    THEN copyNodeFields(p, tag, s, d, h, i + 1)
    ELSE copyNodeFields(p, tag, s, d,
                        copyValue(p, tag, Fields("Node")[i].type, Sub(s, i), Sub(d, i), h).h,
                        i + 1)

\* copyPtr that takes a pointer back to the caller's variable for the end of the chain
copyPtrStep_StopAtStart(w, h) ==
    LET s == Sub(Loc(w.s), Next_)
        d == Sub(Loc(w.d), Next_)
    IN IF Read(h, s) = NIL \/ Read(h, s) = srcA
       THEN [h |-> Write(h, d, NIL), w |-> [w EXCEPT !.pc = "returned"]]
       ELSE LET h1 == IF Read(h, d) = NIL
                      THEN Write(Alloc(h, "Node", Zero("Node")), d, Len(h) + 1)
                      ELSE h
            IN [h |-> h1,
                w |-> [w EXCEPT !.s = Read(h1, s), !.d = Read(h1, d), !.depth = @ + 1]]

\* copyPtr on the field Next: a nil source pointer ends the recursion, the activations
\* return one after the other; else dst gets a Node if it has none and copyValue is
\* called on the two Nodes pointed to
copyPtrStep(w, h) ==
    LET s == Sub(Loc(w.s), Next_)
        d == Sub(Loc(w.d), Next_)
    IN IF Read(h, s) = NIL
       THEN [h |-> Write(h, d, NIL), w |-> [w EXCEPT !.pc = "returned"]]
       ELSE LET h1 == IF Read(h, d) = NIL
                      THEN Write(Alloc(h, "Node", Zero("Node")), d, Len(h) + 1)
                      ELSE h
            IN [h |-> h1,
                w |-> [w EXCEPT !.s = Read(h1, s), !.d = Read(h1, d), !.depth = @ + 1]]

\* the state once an activation has copied its fields and copyPtr has done r
Activated(r) ==
    /\ r.w.depth <= MaxDepth
    /\ heap' = r.h
    /\ procs' = <<r.w>>

\* one activation of copyValue on a Node
DoActivation ==
    /\ procs # NoProcs
    /\ procs[1].pc = "copyValue"
    /\ Activated(copyPtrStep(procs[1],
                             copyNodeFields(Protector, procs[1].tag, Loc(procs[1].s),
                                            Loc(procs[1].d), heap, 1)))
    /\ UNCHANGED <<sliceOptions, mapOptions, primitiveStructs, rootT, srcA, dstA,
                   othA, ret, pre, last, calls, caller, tagValue, tagArg, protected, req>>

NextWalk ==
    \/ \E tag \in {Create, NoTag} : DoWalkCopy(tag)
    \/ DoWalkClone
    \/ DoActivation

SpecWalk == InitWalk /\ [][NextWalk]_vars

\* the call runs on the caller's thread: an activation that can run does
SpecWalkFair == SpecWalk /\ WF_vars(DoActivation)

RECURSIVE Follow(_, _, _)
\* the Node k pointers after the Node at a; NIL when the chain ends before
Follow(h, a, k) ==
    IF a = NIL \/ k = 0 THEN a ELSE Follow(h, Read(h, Sub(Loc(a), Next_)), k - 1)

\* the source holds a self-referential structure: its chain of at most MaxNodes Nodes
\* does not end
SrcCyclic == Follow(heap, srcA, MaxNodes) # NIL

Walking == procs # NoProcs /\ procs[1].pc = "copyValue"
Returned == procs # NoProcs /\ procs[1].pc = "returned"

(* C29: a Copy or Clone call runs to completion when the source is finite  *)
(* and acyclic, and never completes when the source holds a                *)
(* self-referential structure: the traversal has no cycle detection and    *)
(* goes deeper with every pointer it follows.                              *)
C29_Termination ==
    /\ (Walking /\ ~SrcCyclic) ~> Returned
    /\ [](SrcCyclic => ~Returned)

\* Copy over a chain of MaxNodes Nodes has returned after MaxNodes activations
C29_Witness ==
    /\ Returned
    /\ procs[1].op = "Copy"
    /\ ~SrcCyclic
    /\ Follow(heap, srcA, MaxNodes - 1) # NIL
    /\ procs[1].depth = MaxNodes
    /\ Follow(heap, dstA, MaxNodes - 1) # NIL /\ Follow(heap, dstA, MaxNodes) = NIL

\* Clone of a Node that points to itself: more activations than there are Nodes, and
\* the call has not returned
C29_Deeper ==
    /\ Walking
    /\ procs[1].op = "Clone"
    /\ Read(heap, Sub(Loc(srcA), Next_)) = srcA
    /\ procs[1].depth = MaxDepth

\* the activations of a Copy over a chain leave dst as the traversal as a whole does
C29_SameAsCopy ==
    Returned /\ ~SrcCyclic /\ procs[1].op = "Copy" =>
        TreeAt(rootT, dstA, heap) =
            TreeAt(rootT, dstA,
                   Copy(Protector, procs[1].tag, PtrArg(rootT, srcA), PtrArg(rootT, dstA),
                        pre.heap).h)

----------------------------------------------------------------------------
\* the elements of the top-level slice the last CopySlice copied: all the source's under
\* overwrite and match, those both slices have under longer and shorter
CopiedElements ==
    IF last.option \in {"overwrite", "match"} THEN 1..Len(SrcSlice(<<>>).e)
    ELSE 1..Min(Len(SrcSlice(<<>>).e), Len(DstSliceBefore(<<>>).e))

\* the slice Items of element i of dst as a copy under its own policy leaves it: the
\* copy of the source element's Items onto the Items the element had before the call
\* (nil for an element the call created), by an engine whose registry is as it was
\* before the call
OwnPolicyItems(i) ==
    LET existed == i <= Len(DstSliceBefore(<<>>).e) /\ last.option # "overwrite"
        h1 == Alloc(pre.heap, Elem(rootT),
                    IF existed THEN Read(pre.heap, Index(pre.heap, Loc(DstRoot), i))
                    ELSE Zero(Elem(rootT)))
        r == copySlice(EngineAtCall, last.tag, "[]SimpleStruct",
                       Sub(Index(pre.heap, Loc(SrcRoot), i), 2), Sub(Loc(Len(h1)), 2), h1)
    IN Tree("[]SimpleStruct", Read(r.h, Sub(Loc(Len(h1)), 2)), r.h)

\* the last call was a successful CopySlice on slices of SliceWithOptions
NestedCopied ==
    /\ Succeeded("CopySlice")
    /\ rootT = "[]SliceWithOptions"
    /\ ~SrcSlice(<<>>).nil

(* C30: the policy passed to CopySlice governs only the top-level          *)
(* destination slice: the slice nested in every element the call copies is *)
(* copied under its own policy (its override, else overwrite), whatever    *)
(* the destination is, a nil or empty top-level slice and nil nested       *)
(* slices included.                                                        *)
C30_AsStated ==
    NestedCopied =>
        \A i \in CopiedElements : DstSliceAfter(<<>>).e[i][2] = OwnPolicyItems(i)

\* what the code does about C30: as stated when the top-level destination is not nil and
\* no override is registered for the nil slice
C30_TopLevelNotNil ==
    NestedCopied /\ ~DstSliceBefore(<<>>).nil /\ NIL \notin DOMAIN pre.sliceOptions =>
        \A i \in CopiedElements : DstSliceAfter(<<>>).e[i][2] = OwnPolicyItems(i)

\* CopySlice with tag create under match into a nil slice, from one element holding one
\* item: the item's ID is empty, as match leaves it, not the source's as overwrite does
C30_NestedUnderMatch ==
    /\ NestedCopied
    /\ last.option = "match" /\ last.tag = Create
    /\ pre.sliceOptions = EmptyMap
    /\ DstSliceBefore(<<>>).nil
    /\ Len(SrcSlice(<<>>).e) = 1
    /\ Len(SrcSlice(<<>>).e[1][2].e) = 1
    /\ DstSliceAfter(<<>>).e[1][2].e[1][1] = ""
    /\ OwnPolicyItems(1).e[1][1] = SrcSlice(<<>>).e[1][2].e[1][1]

\* CopySlice under match into a slice holding one element whose Items hold an item: the
\* nested Items are overwritten, the item's ID is the source's
C30_NestedOverwritten ==
    /\ NestedCopied
    /\ last.option = "match" /\ last.tag = Create
    /\ pre.sliceOptions = EmptyMap
    /\ Len(DstSliceBefore(<<>>).e) = 1 /\ Len(SrcSlice(<<>>).e) = 1
    /\ Len(DstSliceBefore(<<>>).e[1][2].e) = 1
    /\ Len(SrcSlice(<<>>).e[1][2].e) = 1
    /\ DstSliceAfter(<<>>).e[1][2].e[1][1] = SrcSlice(<<>>).e[1][2].e[1][1]

====
